---------------------------- MODULE Spec2Model ----------------------------
(***************************************************************************)
(* Diagnostics engine of ts_query_ls (src/src/handlers/diagnostic.rs):     *)
(* the document-diagnostic request, the recursive import walker with its   *)
(* seen-set, the blocking pattern validator and its process-wide scan      *)
(* cache, and the single-pass scan of the query tree; and the selection    *)
(* range request (src/src/handlers/selection_range.rs).                    *)
(*                                                                         *)
(* Encodings.  Option<T>: None is <<>>, Some(x) is <<x>>.  A Vec is a      *)
(* sequence.  Diagnostic.related_information: None is <<>>, Some(v) is v   *)
(* (the code never builds Some(empty)).  A HashMap / BTreeMap / DashMap is *)
(* a function whose DOMAIN is its key set (MapGet, MapInsert), except      *)
(* document_map, a function from every Url to Option<DocumentData>.        *)
(***************************************************************************)
EXTENDS Naturals, Sequences, FiniteSets, TLC

VARIABLES
    document_map,      \* Backend.document_map : Url -> Option<DocumentData>
    options,           \* Backend.options (behind the tokio RwLock)
    QUERY_SCAN_CACHE,  \* the static DashMap<(String, String), Option<usize>>
    pc,                \* position of the diagnostic request handler
    stack,             \* activation records of get_diagnostics_recursively
    seen,              \* the HashSet<Url> created by get_diagnostics
    response,          \* Option<Result<report>> of the request
    tasks              \* concurrent pattern validations (blocking workers);
                       \* the request in flight of selection_range

vars == <<document_map, options, QUERY_SCAN_CACHE, pc, stack, seen, response, tasks>>

---------------------------------------------------------------------------
(* Bounds of the model *)

\* at most this many import entries in the whole document store
MaxEdges == 3

\* number of concurrent pattern validations in the cache specification
NumTasks == 3

---------------------------------------------------------------------------
(* Option and small helpers *)

None == <<>>
Some(x) == <<x>>
IsSome(o) == o # <<>>
Unwrap(o) == o[1]

Front(s) == SubSeq(s, 1, Len(s) - 1)

RECURSIVE Flatten(_)
Flatten(ss) == IF ss = <<>> THEN <<>> ELSE Head(ss) \o Flatten(Tail(ss))

EmptyMap == <<>>
MapGet(m, k) == IF k \in DOMAIN m THEN Some(m[k]) ELSE None
MapInsert(m, k, v) == [x \in (DOMAIN m) \cup {k} |-> IF x = k THEN v ELSE m[x]]

SeqsUpTo(S, n) == UNION {[1..k -> S] : k \in 0..n}

---------------------------------------------------------------------------
(* lsp_types: severities, positions, ranges, diagnostics *)

ERROR == 1
WARNING == 2
HINT == 4

ERROR_SEVERITY == Some(ERROR)
WARNING_SEVERITY == Some(WARNING)
HINT_SEVERITY == Some(HINT)

Position(l, c) == [line |-> l, character |-> c]
Range(s, e) == [start |-> s, end |-> e]
DefaultRange == Range(Position(0, 0), Position(0, 0))

\* Diagnostic { range, severity, message, ..Default::default() }
Diagnostic(rng, sev, msg) ==
    [range |-> rng, severity |-> sev, message |-> msg,
     related_information |-> None, tags |-> None, data |-> None]

---------------------------------------------------------------------------
(* Documents: the parsed tree is a preorder table of its named nodes, the  *)
(* sites are the captures of DIAGNOSTICS_QUERY in match order.             *)

Urls == {"u1", "u2", "u3"}
TEST_URI == "u1"

Node(k, p, s, e, t) ==
    [kind |-> k, parent |-> p, start_byte |-> s, end_byte |-> e, text |-> t,
     is_missing |-> FALSE]
Site(n, i) == [name |-> n, node |-> i]

T_CAP == "(identifier) @capture"
T_HINT == "((identifier) @capture (#eq? @capture foo))"
T_SQUID == "(squid)"
T_ID == "(identifier)"
T_NEST == "(identifier (identifier)) @nest"
T_SUPER1 == "(expression/squid) @capture"
T_SUPER2 == "(statement/squid) @capture"
T_SUPER3 == "(squid/identifier) @capture"
T_ANON == "\"f\\anc\" @capture"
T_FIELD == "(identifier nme: (identifier)) @capture"
T_SYNTAX == "(identifier"
T_ERROR == "(identifier ,) @capture"
T_STR == "((identifier) @capture (#eq? @capture \"foo\"))"

SourceOf(text) ==
    CASE text = T_CAP ->
           [nodes |-> << Node("program", 0, 0, 21, T_CAP),
                         Node("named_node", 1, 0, 21, T_CAP),
                         Node("identifier", 2, 1, 11, "identifier"),
                         Node("capture", 2, 13, 21, "@capture") >>,
            sites |-> << Site("pattern", 2), Site("node.named", 3),
                         Site("capture.definition", 4) >>]
      [] text = T_HINT ->
           [nodes |-> << Node("program", 0, 0, 43, T_HINT),
                         Node("grouping", 1, 0, 43, T_HINT),
                         Node("named_node", 2, 1, 22, "(identifier) @capture"),
                         Node("identifier", 3, 2, 12, "identifier"),
                         Node("capture", 3, 14, 22, "@capture"),
                         Node("predicate", 2, 23, 42, "(#eq? @capture foo)"),
                         Node("identifier", 6, 25, 27, "eq"),
                         Node("predicate_type", 6, 27, 28, "?"),
                         Node("parameters", 6, 29, 41, "@capture foo"),
                         Node("capture", 9, 29, 37, "@capture"),
                         Node("identifier", 9, 38, 41, "foo") >>,
            sites |-> << Site("pattern", 2), Site("node.named", 4),
                         Site("capture.definition", 5), Site("predicate", 7),
                         Site("capture.reference", 10), Site("identifier", 11) >>]
      [] text = T_SQUID ->
           [nodes |-> << Node("program", 0, 0, 7, T_SQUID),
                         Node("named_node", 1, 0, 7, T_SQUID),
                         Node("identifier", 2, 1, 6, "squid") >>,
            sites |-> << Site("pattern", 2), Site("node.named", 3) >>]
      [] text = T_ID ->
           [nodes |-> << Node("program", 0, 0, 12, T_ID),
                         Node("named_node", 1, 0, 12, T_ID),
                         Node("identifier", 2, 1, 11, "identifier") >>,
            sites |-> << Site("pattern", 2), Site("node.named", 3) >>]
      [] text = T_NEST ->
           [nodes |-> << Node("program", 0, 0, 31, T_NEST),
                         Node("named_node", 1, 0, 31, T_NEST),
                         Node("identifier", 2, 1, 11, "identifier"),
                         Node("named_node", 2, 12, 24, "(identifier)"),
                         Node("identifier", 4, 13, 23, "identifier"),
                         Node("capture", 2, 26, 31, "@nest") >>,
            sites |-> << Site("pattern", 2), Site("node.named", 3),
                         Site("node.named", 5), Site("capture.definition", 6) >>]
      [] text = T_SUPER1 ->
           [nodes |-> << Node("program", 0, 0, 27, T_SUPER1),
                         Node("named_node", 1, 0, 27, T_SUPER1),
                         Node("identifier", 2, 1, 11, "expression"),
                         Node("identifier", 2, 12, 17, "squid"),
                         Node("capture", 2, 19, 27, "@capture") >>,
            sites |-> << Site("pattern", 2), Site("supertype", 3), Site("capture.definition", 5) >>]
      [] text = T_SUPER2 ->
           [nodes |-> << Node("program", 0, 0, 26, T_SUPER2),
                         Node("named_node", 1, 0, 26, T_SUPER2),
                         Node("identifier", 2, 1, 10, "statement"),
                         Node("identifier", 2, 11, 16, "squid"),
                         Node("capture", 2, 18, 26, "@capture") >>,
            sites |-> << Site("pattern", 2), Site("supertype", 3), Site("capture.definition", 5) >>]
      [] text = T_SUPER3 ->
           [nodes |-> << Node("program", 0, 0, 27, T_SUPER3),
                         Node("named_node", 1, 0, 27, T_SUPER3),
                         Node("identifier", 2, 1, 6, "squid"),
                         Node("identifier", 2, 7, 17, "identifier"),
                         Node("capture", 2, 19, 27, "@capture") >>,
            sites |-> << Site("pattern", 2), Site("supertype", 3), Site("capture.definition", 5) >>]
      [] text = T_ANON ->
           [nodes |-> << Node("program", 0, 0, 16, T_ANON),
                         Node("anonymous_node", 1, 0, 16, T_ANON),
                         Node("string", 2, 0, 7, "\"f\\anc\""),
                         Node("string_content", 3, 1, 6, "f\\anc"),
                         Node("escape_sequence", 4, 2, 4, "\\a"),
                         Node("capture", 2, 8, 16, "@capture") >>,
            sites |-> << Site("pattern", 2), Site("node.anonymous", 4), Site("escape", 5), Site("capture.definition", 6) >>]
      [] text = T_FIELD ->
           [nodes |-> << Node("program", 0, 0, 39, T_FIELD),
                         Node("named_node", 1, 0, 39, T_FIELD),
                         Node("identifier", 2, 1, 11, "identifier"),
                         Node("field_definition", 2, 12, 29, "nme: (identifier)"),
                         Node("identifier", 4, 12, 15, "nme"),
                         Node("named_node", 4, 17, 29, "(identifier)"),
                         Node("identifier", 6, 18, 28, "identifier"),
                         Node("capture", 2, 31, 39, "@capture") >>,
            sites |-> << Site("pattern", 2), Site("node.named", 3), Site("field", 5), Site("node.named", 7), Site("capture.definition", 8) >>]
      [] text = T_SYNTAX ->
           [nodes |-> << Node("program", 0, 0, 11, T_SYNTAX),
                         Node("named_node", 1, 0, 11, T_SYNTAX),
                         Node("identifier", 2, 1, 11, "identifier"),
                         [Node(")", 2, 11, 11, "") EXCEPT !.is_missing = TRUE] >>,
            sites |-> << Site("pattern", 2), Site("node.named", 3), Site("missing", 4) >>]
      [] text = T_ERROR ->
           [nodes |-> << Node("program", 0, 0, 23, T_ERROR),
                         Node("named_node", 1, 0, 23, T_ERROR),
                         Node("identifier", 2, 1, 11, "identifier"),
                         Node("ERROR", 2, 12, 13, ","),
                         Node("capture", 2, 15, 23, "@capture") >>,
            sites |-> << Site("pattern", 2), Site("node.named", 3), Site("error", 4), Site("capture.definition", 5) >>]
      [] text = T_STR ->
           [nodes |-> << Node("program", 0, 0, 45, T_STR),
                         Node("grouping", 1, 0, 45, T_STR),
                         Node("named_node", 2, 1, 22, "(identifier) @capture"),
                         Node("identifier", 3, 2, 12, "identifier"),
                         Node("capture", 3, 14, 22, "@capture"),
                         Node("predicate", 2, 23, 44, "(#eq? @capture \"foo\")"),
                         Node("identifier", 6, 25, 27, "eq"),
                         Node("predicate_type", 6, 27, 28, "?"),
                         Node("parameters", 6, 29, 43, "@capture \"foo\""),
                         Node("capture", 9, 29, 37, "@capture"),
                         Node("string", 9, 38, 43, "\"foo\""),
                         Node("string_content", 11, 39, 42, "foo") >>,
            sites |-> << Site("pattern", 2), Site("node.named", 4), Site("capture.definition", 5), Site("predicate", 7), Site("capture.reference", 10), Site("string", 12) >>]

\* the query sources a document at each URI may hold
SourcesAt(uri) ==
    CASE uri = "u1" -> {T_CAP, T_HINT}
      [] uri = "u2" -> {T_SQUID, T_ID}
      [] uri = "u3" -> {T_CAP, T_NEST}

\* get_language_name(uri, options): the directory above the file
LanguageNameOf(uri) ==
    CASE uri = "u1" -> Some("js")
      [] uri = "u2" -> Some("css")
      [] uri = "u3" -> Some("lua")

\* a key into the capture table that is the language directory
LanguageAsBasename(uri) == LanguageNameOf(uri)

\* uri_to_basename(uri)
uri_to_basename(uri) == Some("test")

\* imported_uris: Vec<(u32, u32, Option<Url>)>, the modules of the
\* `; inherits: a,b` comment on line 0 with their columns
ImportEntries(uris) ==
    [i \in 1..Len(uris) |->
        [start |-> 10 + 4 * (i - 1), end |-> 13 + 4 * (i - 1), uri |-> uris[i]]]

\* bytes of the `; inherits:` line (with its line break), 0 when there is none
HeaderBytes(n) == IF n = 0 THEN 0 ELSE 12 + 4 * n

\* DocumentData { rope, tree, language_name, imported_uris }: the query source
\* follows the inherits line when there is one
DocumentData(uri, uris, text) ==
    LET h == HeaderBytes(Len(uris))
        src == SourceOf(text)
    IN  [language_name |-> LanguageNameOf(uri),
         imported_uris |-> ImportEntries(uris),
         text |-> text,
         line |-> IF h = 0 THEN 0 ELSE 1,
         line_start |-> h,
         nodes |-> [i \in 1..Len(src.nodes) |->
                       [src.nodes[i] EXCEPT !.start_byte = @ + h, !.end_byte = @ + h]],
         sites |-> src.sites]

\* NodeUtil::lsp_range: bytes to line and column through the rope
lsp_range(doc, node) ==
    Range(Position(doc.line, node.start_byte - doc.line_start),
          Position(doc.line, node.end_byte - doc.line_start))

Children(doc, i) == {j \in 1..Len(doc.nodes) : doc.nodes[j].parent = i}

\* Node::named_descendant_for_byte_range(b, b) from node i: descend into the
\* first child that covers b
RECURSIVE DescendantFrom(_, _, _)
DescendantFrom(doc, i, b) ==
    LET cover == {j \in Children(doc, i) :
                     doc.nodes[j].start_byte <= b /\ b <= doc.nodes[j].end_byte}
    IN  IF cover = {} THEN i
        ELSE DescendantFrom(doc, CHOOSE j \in cover : \A k \in cover : j <= k, b)

named_descendant_for_byte_range(doc, b) ==
    IF doc.nodes[1].start_byte <= b /\ b <= doc.nodes[1].end_byte
    THEN Some(doc.nodes[DescendantFrom(doc, 1, b)])
    ELSE None

\* a search for captures that starts at the root of the tree
WholeTree(doc, i) == 1

\* Node::child_with_descendant from the root: the top-level pattern holding i
RECURSIVE TopLevelOf(_, _)
TopLevelOf(doc, i) ==
    IF doc.nodes[i].parent = 1 THEN i ELSE TopLevelOf(doc, doc.nodes[i].parent)

RECURSIVE IsWithin(_, _, _)
IsWithin(doc, i, top) ==
    IF i = top THEN TRUE
    ELSE IF i <= 1 THEN FALSE
    ELSE IsWithin(doc, doc.nodes[i].parent, top)

\* indices of a set, ascending, as a sequence
RECURSIVE Ascending(_)
Ascending(S) ==
    IF S = {} THEN <<>>
    ELSE LET m == CHOOSE x \in S : \A y \in S : x <= y
         IN  <<m>> \o Ascending(S \ {m})

\* DEFINITIONS_QUERY "(program (definition) @def)": the children of the root
Definitions(doc) == Ascending(Children(doc, 1))

---------------------------------------------------------------------------
(* Language data and the grammar's query compiler *)

SymbolInfo(l, n) == [label |-> l, named |-> n]

\* LanguageData { name, language, symbols_set, fields_set, supertype_map }
LanguageData(n, lang, syms, flds) ==
    [name |-> n, language |-> lang, symbols_set |-> syms, fields_set |-> flds,
     supertype_map |-> EmptyMap]

LD_JS == LanguageData("js", Some("js"), {SymbolInfo("identifier", TRUE)}, {"name"})
LD_CSS == LanguageData("css", Some("css"), {SymbolInfo("squid", TRUE)}, {})

LD_OLD == LanguageData("old", Some("abi"), {}, {})

\* Backend.language_map: no grammar is registered for "lua"
language_map ==
    [n \in {"js", "css", "old"} |->
        CASE n = "js" -> LD_JS [] n = "css" -> LD_CSS [] n = "old" -> LD_OLD]

T_UNDECL == "((identifier) (#eq? @a b))"
T_PRED == "((identifier) @a (#match? @a))"
T_SQUIDS == "(squid (squid)) @capture"

Ok == [kind |-> "Ok", offset |-> 0]
QueryError(k, o) == [kind |-> k, offset |-> o]

\* tree_sitter::Query::new(&language, source): a pure function of the grammar
\* and the source text; the grammar "abi" is one the library cannot load
QueryNew(language, source) ==
    CASE language = "abi" -> QueryError("Language", 0)
      [] source = T_SYNTAX -> QueryError("Syntax", 11)
      [] source = T_UNDECL -> QueryError("Capture", 20)
      [] source = T_PRED /\ language = "js" -> QueryError("Predicate", 18)
      [] source = T_PRED /\ language = "css" -> QueryError("NodeType", 2)
      [] source = T_FIELD /\ language = "js" -> QueryError("Field", 12)
      [] source = T_FIELD /\ language = "css" -> QueryError("NodeType", 1)
      [] source = T_NEST /\ language = "js" -> QueryError("Structure", 12)
      [] source = T_NEST /\ language = "css" -> QueryError("NodeType", 1)
      [] source = T_NEST /\ language = "ts" -> QueryError("Structure", 12)
      [] source = T_SQUIDS /\ language = "css" -> QueryError("Structure", 7)
      [] source = T_SQUIDS /\ language = "js" -> QueryError("NodeType", 1)
      [] source = T_SQUID /\ language = "css" -> Ok
      [] source = T_SQUID /\ language = "js" -> QueryError("NodeType", 1)
      [] source = T_HINT /\ language = "css" -> QueryError("NodeType", 2)
      [] source \in {T_CAP, T_ID} /\ language = "css" -> QueryError("NodeType", 1)
      [] OTHER -> Ok

---------------------------------------------------------------------------
(* The pattern scan and its cache *)

\* a scan that takes the offset of any compilation error
AnyErrorOffset(pattern_text, language) ==
    LET r == QueryNew(language, pattern_text)
    IN  IF r.kind # "Ok" THEN Some(r.offset) ELSE None

\* fn get_pattern_diagnostic
get_pattern_diagnostic(pattern_text, language) ==
    LET r == QueryNew(language, pattern_text)
    IN  IF r.kind = "Structure" THEN Some(r.offset) ELSE None

\* keys that forget the grammar: one grammar name for all, or none
OneGrammarKey(language_name, pattern_text) == <<"js", pattern_text>>
TextOnlyKey(language_name, pattern_text) == <<"", pattern_text>>

\* the key of QUERY_SCAN_CACHE
pattern_key(language_name, pattern_text) == <<language_name, pattern_text>>

\* fn get_pattern_diagnostic_cached, run without interruption: the value
\* returned and the cache it leaves
get_pattern_diagnostic_cached(cache, pattern_text, language_name, language) ==
    LET key == pattern_key(language_name, pattern_text)
        cached_diag == MapGet(cache, key)
        byte_offset == get_pattern_diagnostic(pattern_text, language)
    IN  IF IsSome(cached_diag)
        THEN [value |-> Unwrap(cached_diag), cache |-> cache]
        ELSE [value |-> byte_offset, cache |-> MapInsert(cache, key, byte_offset)]

\* a diagnostic that falls back to the default range
PatternAtOrigin(doc, def, offset) ==
    Diagnostic(DefaultRange, ERROR_SEVERITY, "Invalid pattern structure")

\* the diagnostic pushed for a definition whose scan gave Some(offset)
InvalidPatternStructure(doc, def, offset) ==
    LET true_offset == offset + doc.nodes[def].start_byte
        node == named_descendant_for_byte_range(doc, true_offset)
    IN  Diagnostic(IF IsSome(node) THEN lsp_range(doc, Unwrap(node)) ELSE DefaultRange,
                   ERROR_SEVERITY, "Invalid pattern structure")

\* the loop of the spawn_blocking closure over the definitions
RECURSIVE ValidateDefinitions(_, _, _, _, _)
ValidateDefinitions(doc, ld, cache_enabled, defs, cache) ==
    IF defs = <<>> THEN [diagnostics |-> <<>>, cache |-> cache]
    ELSE LET text == doc.nodes[Head(defs)].text
             language == Unwrap(ld.language)
             r == IF cache_enabled
                  THEN get_pattern_diagnostic_cached(cache, text, ld.name, language)
                  ELSE [value |-> get_pattern_diagnostic(text, language), cache |-> cache]
             rest == ValidateDefinitions(doc, ld, cache_enabled, Tail(defs), r.cache)
         IN  [diagnostics |->
                 (IF IsSome(r.value)
                  THEN <<InvalidPatternStructure(doc, Head(defs), Unwrap(r.value))>>
                  ELSE <<>>) \o rest.diagnostics,
              cache |-> rest.cache]

\* a worker that goes through the cache whatever the caller asked for
AlwaysCached(doc, language_data, cache_enabled, cache) ==
    IF IsSome(language_data) /\ IsSome(Unwrap(language_data).language)
    THEN ValidateDefinitions(doc, Unwrap(language_data), TRUE, Definitions(doc), cache)
    ELSE [diagnostics |-> <<>>, cache |-> cache]

\* the spawn_blocking closure: nothing without language data or without a
\* compiled grammar
PatternValidator(doc, language_data, cache_enabled, cache) ==
    IF IsSome(language_data) /\ IsSome(Unwrap(language_data).language)
    THEN ValidateDefinitions(doc, Unwrap(language_data), cache_enabled,
                             Definitions(doc), cache)
    ELSE [diagnostics |-> <<>>, cache |-> cache]

---------------------------------------------------------------------------
(* Options and the predicate validator *)

\* PredicateParameter { type_, arity, description }
PredicateParameter(t, a) == [type_ |-> t, arity |-> a]

\* Options { valid_captures, valid_predicates, valid_directives,
\*           diagnostic_options }
Options(caps, preds, dirs, style, warn) ==
    [valid_captures |-> caps, valid_predicates |-> preds, valid_directives |-> dirs,
     diagnostic_options |->
        [string_argument_style |-> style, warn_unused_underscore_captures |-> warn]]

\* a comparison that takes every parameter that is not a capture spec for a
\* string spec
StrictTypeMismatch(is_capture, param_spec) == is_capture # (param_spec.type_ = "capture")

\* the closure param_type_mismatch
param_type_mismatch(is_capture, param_spec) ==
    \/ is_capture /\ param_spec.type_ = "string"
    \/ ~is_capture /\ param_spec.type_ = "capture"

\* the closure type_mismatch_diag
type_mismatch_diag(doc, is_capture, param, param_spec) ==
    Diagnostic(lsp_range(doc, param), WARNING_SEVERITY,
               "Parameter type mismatch: expected \"" \o param_spec.type_
                   \o "\", got \"" \o (IF is_capture THEN "capture" ELSE "string") \o "\"")

\* a walk that lets an optional last spec take the extra parameters, as a
\* variadic one does
RECURSIVE OptionalTakesExtra(_, _, _, _, _)
OptionalTakesExtra(doc, specs, params, k, prev) ==
    IF params = <<>> \/ doc.nodes[Head(params)].is_missing
    THEN [diagnostics |-> <<>>, consumed |-> k]
    ELSE LET param == doc.nodes[Head(params)]
             is_capture == param.kind = "capture"
             here == IF k < Len(specs)
                     THEN IF param_type_mismatch(is_capture, specs[k + 1])
                          THEN <<type_mismatch_diag(doc, is_capture, param, specs[k + 1])>>
                          ELSE <<>>
                     ELSE IF prev.arity = "required"
                     THEN <<Diagnostic(lsp_range(doc, param), WARNING_SEVERITY,
                                       "Unexpected parameter: \"" \o param.text \o "\"")>>
                     ELSE <<>>
             rest == IF k < Len(specs)
                     THEN OptionalTakesExtra(doc, specs, Tail(params), k + 1, specs[k + 1])
                     ELSE OptionalTakesExtra(doc, specs, Tail(params), k, prev)
         IN  [diagnostics |-> here \o rest.diagnostics, consumed |-> rest.consumed]

\* a walk that passes over a MISSING node and goes on with the parameters
\* after it
RECURSIVE SkipMissing(_, _, _, _, _)
SkipMissing(doc, specs, params, k, prev) ==
    IF params = <<>>
    THEN [diagnostics |-> <<>>, consumed |-> k]
    ELSE IF doc.nodes[Head(params)].is_missing
    THEN SkipMissing(doc, specs, Tail(params), k, prev)
    ELSE LET param == doc.nodes[Head(params)]
             is_capture == param.kind = "capture"
             here == IF k < Len(specs)
                     THEN IF param_type_mismatch(is_capture, specs[k + 1])
                          THEN <<type_mismatch_diag(doc, is_capture, param, specs[k + 1])>>
                          ELSE <<>>
                     ELSE IF prev.arity # "variadic"
                     THEN <<Diagnostic(lsp_range(doc, param), WARNING_SEVERITY,
                                       "Unexpected parameter: \"" \o param.text \o "\"")>>
                     ELSE IF param_type_mismatch(is_capture, prev)
                     THEN <<type_mismatch_diag(doc, is_capture, param, prev)>>
                     ELSE <<>>
             rest == IF k < Len(specs)
                     THEN SkipMissing(doc, specs, Tail(params), k + 1, specs[k + 1])
                     ELSE SkipMissing(doc, specs, Tail(params), k, prev)
         IN  [diagnostics |-> here \o rest.diagnostics, consumed |-> rest.consumed]

\* the for loop of validate_predicate over the children of the parameters
\* node: k specs are consumed, prev is prev_param_spec
RECURSIVE WalkParameters(_, _, _, _, _)
WalkParameters(doc, specs, params, k, prev) ==
    IF params = <<>> \/ doc.nodes[Head(params)].is_missing
    THEN [diagnostics |-> <<>>, consumed |-> k]
    ELSE LET param == doc.nodes[Head(params)]
             is_capture == param.kind = "capture"
             here == IF k < Len(specs)
                     THEN IF param_type_mismatch(is_capture, specs[k + 1])
                          THEN <<type_mismatch_diag(doc, is_capture, param, specs[k + 1])>>
                          ELSE <<>>
                     ELSE IF prev.arity # "variadic"
                     THEN <<Diagnostic(lsp_range(doc, param), WARNING_SEVERITY,
                                       "Unexpected parameter: \"" \o param.text \o "\"")>>
                     ELSE IF param_type_mismatch(is_capture, prev)
                     THEN <<type_mismatch_diag(doc, is_capture, param, prev)>>
                     ELSE <<>>
             rest == IF k < Len(specs)
                     THEN WalkParameters(doc, specs, Tail(params), k + 1, specs[k + 1])
                     ELSE WalkParameters(doc, specs, Tail(params), k, prev)
         IN  [diagnostics |-> here \o rest.diagnostics, consumed |-> rest.consumed]

\* a validator that asks for every spec that was not consumed, whatever its
\* arity
EveryParameterRequired(doc, predicate_params, predicate_node) ==
    LET call == doc.nodes[predicate_node].parent
        params_node == Ascending(Children(doc, call))[3]
    IN  IF predicate_params = <<>>
        THEN <<Diagnostic(lsp_range(doc, doc.nodes[params_node]), WARNING_SEVERITY,
                          "Parameter specification must not be empty")>>
        ELSE LET w == WalkParameters(doc, predicate_params,
                                     Ascending(Children(doc, params_node)),
                                     0, predicate_params[1])
                 k == w.consumed
             IN  w.diagnostics \o
                 (IF k < Len(predicate_params)
                  THEN <<Diagnostic(lsp_range(doc, doc.nodes[call]), WARNING_SEVERITY,
                                    "Missing parameter of type \""
                                        \o predicate_params[k + 1].type_ \o "\"")>>
                  ELSE <<>>)

\* a validator that walks the parameters of a call whose spec list is empty
\* as if every one of them were unexpected
EmptySpecWalked(doc, predicate_params, predicate_node) ==
    LET call == doc.nodes[predicate_node].parent
        params_node == Ascending(Children(doc, call))[3]
        params == Ascending(Children(doc, params_node))
    IN  IF predicate_params = <<>>
        THEN <<Diagnostic(lsp_range(doc, doc.nodes[params_node]), WARNING_SEVERITY,
                          "Parameter specification must not be empty")>>
             \o [k \in 1..Len(params) |->
                    Diagnostic(lsp_range(doc, doc.nodes[params[k]]), WARNING_SEVERITY,
                               "Unexpected parameter: \"" \o doc.nodes[params[k]].text \o "\"")]
        ELSE LET w == WalkParameters(doc, predicate_params, params, 0, predicate_params[1])
                 k == w.consumed
             IN  w.diagnostics \o
                 (IF k < Len(predicate_params) /\ predicate_params[k + 1].arity = "required"
                  THEN <<Diagnostic(lsp_range(doc, doc.nodes[call]), WARNING_SEVERITY,
                                    "Missing parameter of type \""
                                        \o predicate_params[k + 1].type_ \o "\"")>>
                  ELSE <<>>)

\* fn validate_predicate: the diagnostics it pushes
validate_predicate(doc, predicate_params, predicate_node) ==
    LET call == doc.nodes[predicate_node].parent
        params_node == Ascending(Children(doc, call))[3]
    IN  IF predicate_params = <<>>
        THEN <<Diagnostic(lsp_range(doc, doc.nodes[params_node]), WARNING_SEVERITY,
                          "Parameter specification must not be empty")>>
        ELSE LET w == WalkParameters(doc, predicate_params,
                                     Ascending(Children(doc, params_node)),
                                     0, predicate_params[1])
                 k == w.consumed
             IN  w.diagnostics \o
                 (IF k < Len(predicate_params) /\ predicate_params[k + 1].arity = "required"
                  THEN <<Diagnostic(lsp_range(doc, doc.nodes[call]), WARNING_SEVERITY,
                                    "Missing parameter of type \""
                                        \o predicate_params[k + 1].type_ \o "\"")>>
                  ELSE <<>>)

---------------------------------------------------------------------------
(* The scan of the tree: one arm per capture name of DIAGNOSTICS_QUERY.    *)

CaptureDefinitionParents == {"named_node", "list", "anonymous_node", "grouping", "missing_node"}

\* CAPTURE_DEFINITIONS_QUERY under a top-level pattern
CaptureDefinitions(doc, top) ==
    {j \in 1..Len(doc.nodes) :
        /\ doc.nodes[j].kind = "capture"
        /\ IsWithin(doc, j, top)
        /\ doc.nodes[doc.nodes[j].parent].kind \in CaptureDefinitionParents}

\* a search for references that takes every capture of the pattern
AllCapturesUnder(doc, top) ==
    {j \in 1..Len(doc.nodes) : doc.nodes[j].kind = "capture" /\ IsWithin(doc, j, top)}

\* CAPTURE_REFERENCES_QUERY under a top-level pattern
CaptureReferences(doc, top) ==
    {j \in 1..Len(doc.nodes) :
        /\ doc.nodes[j].kind = "capture"
        /\ IsWithin(doc, j, top)
        /\ doc.nodes[doc.nodes[j].parent].kind = "parameters"}

\* CAPTURES_QUERY under a node
Captures(doc, i) ==
    {j \in 1..Len(doc.nodes) : doc.nodes[j].kind = "capture" /\ IsWithin(doc, j, i)}

\* the escapes that mean something in a query string
KeptEscapes == {"\"", "\\", "n", "r", "t", "0"}

\* a filter that looks at each backslash by itself, without taking the
\* character after it
RECURSIVE CharwiseEscapes(_)
CharwiseEscapes(input) ==
    IF Len(input) = 0 THEN ""
    ELSE IF SubSeq(input, 1, 1) = "\\"
            /\ (Len(input) = 1 \/ SubSeq(input, 2, 2) \notin KeptEscapes)
    THEN CharwiseEscapes(SubSeq(input, 2, Len(input)))
    ELSE SubSeq(input, 1, 1) \o CharwiseEscapes(SubSeq(input, 2, Len(input)))

\* fn remove_unnecessary_escapes
RECURSIVE remove_unnecessary_escapes(_)
remove_unnecessary_escapes(input) ==
    IF Len(input) = 0 THEN ""
    ELSE IF SubSeq(input, 1, 1) = "\\"
    THEN IF Len(input) = 1 THEN ""
         ELSE LET char == SubSeq(input, 2, 2)
                  rest == remove_unnecessary_escapes(SubSeq(input, 3, Len(input)))
              IN  IF char \in KeptEscapes THEN "\\" \o char \o rest ELSE char \o rest
    ELSE SubSeq(input, 1, 1) \o remove_unnecessary_escapes(SubSeq(input, 2, Len(input)))

\* a node arm that runs without language data, against an empty symbol set
NodeArmUnguarded(doc, language_data, capture_name, node) ==
    LET named == capture_name = "node.named"
        capture_text == IF named THEN node.text ELSE remove_unnecessary_escapes(node.text)
        symbols == IF IsSome(language_data) THEN Unwrap(language_data).symbols_set ELSE {}
    IN  IF SymbolInfo(capture_text, named) \in symbols THEN <<>>
        ELSE <<Diagnostic(lsp_range(doc, node), ERROR_SEVERITY,
                          "Invalid node type: \"" \o capture_text \o "\"")>>

\* a node arm that looks a literal up as it is written
NodeArmVerbatim(doc, language_data, capture_name, node) ==
    LET named == capture_name = "node.named"
        capture_text == node.text
    IN  IF ~IsSome(language_data) THEN <<>>
        ELSE IF SymbolInfo(capture_text, named) \in Unwrap(language_data).symbols_set
        THEN <<>>
        ELSE <<Diagnostic(lsp_range(doc, node), ERROR_SEVERITY,
                          "Invalid node type: \"" \o capture_text \o "\"")>>

NodeArm(doc, language_data, capture_name, node) ==
    LET named == capture_name = "node.named"
        capture_text == IF named THEN node.text ELSE remove_unnecessary_escapes(node.text)
    IN  IF ~IsSome(language_data) THEN <<>>
        ELSE IF SymbolInfo(capture_text, named) \in Unwrap(language_data).symbols_set
        THEN <<>>
        ELSE <<Diagnostic(lsp_range(doc, node), ERROR_SEVERITY,
                          "Invalid node type: \"" \o capture_text \o "\"")>>

\* Node::next_named_sibling
next_named_sibling(doc, i) ==
    LET later == {j \in Children(doc, doc.nodes[i].parent) : j > i}
    IN  CHOOSE j \in later : \A k \in later : j <= k

SupertypeArm(doc, language_data, i) ==
    IF ~IsSome(language_data) THEN <<>>
    ELSE LET supertypes == Unwrap(language_data).supertype_map
             symbols == Unwrap(language_data).symbols_set
             supertype_text == doc.nodes[i].text
             subtypes == MapGet(supertypes, SymbolInfo(supertype_text, TRUE))
         IN  IF IsSome(subtypes)
             THEN LET subtype == doc.nodes[next_named_sibling(doc, i)]
                      subtype_sym == SymbolInfo(subtype.text, TRUE)
                  IN  IF Unwrap(subtypes) # {} /\ subtype_sym \notin Unwrap(subtypes)
                      THEN <<Diagnostic(lsp_range(doc, subtype), ERROR_SEVERITY,
                                        "Node \"" \o subtype.text \o "\" is not a subtype of \""
                                            \o supertype_text \o "\"")>>
                      ELSE IF Unwrap(subtypes) = {} /\ subtype_sym \notin symbols
                      THEN <<Diagnostic(lsp_range(doc, subtype), ERROR_SEVERITY,
                                        "Invalid node type: \"" \o subtype.text \o "\"")>>
                      ELSE <<>>
             ELSE <<Diagnostic(lsp_range(doc, doc.nodes[i]), ERROR_SEVERITY,
                               "Node \"" \o supertype_text \o "\" is not a supertype")>>

FieldArm(doc, language_data, node) ==
    IF ~IsSome(language_data) \/ node.text \in Unwrap(language_data).fields_set
    THEN <<>>
    ELSE <<Diagnostic(lsp_range(doc, node), ERROR_SEVERITY,
                      "Invalid field name: \"" \o node.text \o "\"")>>

CaptureReferenceArm(doc, i) ==
    IF \E j \in CaptureDefinitions(doc, TopLevelOf(doc, i)) :
          doc.nodes[j].text = doc.nodes[i].text
    THEN <<>>
    ELSE <<Diagnostic(lsp_range(doc, doc.nodes[i]), ERROR_SEVERITY,
                      "Undeclared capture: \"" \o doc.nodes[i].text \o "\"")>>

CaptureDefinitionArm(doc, uri, opts, i) ==
    LET capture_text == doc.nodes[i].text
        suffix == SubSeq(capture_text, 2, Len(capture_text))
        underscore == Len(suffix) > 0 /\ SubSeq(suffix, 1, 1) = "_"
        basename == uri_to_basename(uri)
        valid_captures == MapGet(opts.valid_captures,
                                 IF IsSome(basename) THEN Unwrap(basename) ELSE "")
    IN  IF SubSeq(capture_text, 1, 1) # "@" THEN <<>>
        ELSE IF ~underscore /\ IsSome(valid_captures) /\ suffix \notin Unwrap(valid_captures)
        THEN <<[Diagnostic(lsp_range(doc, doc.nodes[i]), WARNING_SEVERITY,
                           "Unsupported capture name \"" \o capture_text
                               \o "\" (fix available)")
                EXCEPT !.data = Some("PrefixUnderscore")]>>
        ELSE IF underscore /\ opts.diagnostic_options.warn_unused_underscore_captures
                /\ ~\E j \in CaptureReferences(doc, TopLevelOf(doc, i)) :
                        doc.nodes[j].text = capture_text
        THEN <<[Diagnostic(lsp_range(doc, doc.nodes[i]), WARNING_SEVERITY,
                           \* the code's message quotes the underscore in backquotes
                           "Unused _-prefixed capture (fix available)")
                EXCEPT !.tags = Some(<<"UNNECESSARY">>), !.data = Some("Remove")]>>
        ELSE <<>>

\* an arm that also accepts a name the other schema knows
EitherSchema(doc, opts, capture_name, i) ==
    LET validator == IF capture_name = "predicate" THEN opts.valid_predicates
                     ELSE opts.valid_directives
        other == IF capture_name = "predicate" THEN opts.valid_directives
                 ELSE opts.valid_predicates
        predicate == IF IsSome(MapGet(validator, doc.nodes[i].text))
                     THEN MapGet(validator, doc.nodes[i].text)
                     ELSE MapGet(other, doc.nodes[i].text)
    IN  IF DOMAIN validator = {} THEN <<>>
        ELSE IF IsSome(predicate) THEN validate_predicate(doc, Unwrap(predicate), i)
        ELSE <<Diagnostic(lsp_range(doc, doc.nodes[i]), WARNING_SEVERITY,
                          "Unrecognized " \o capture_name \o " \"" \o doc.nodes[i].text \o "\"")>>

PredicateArm(doc, opts, capture_name, i) ==
    LET validator == IF capture_name = "predicate" THEN opts.valid_predicates
                     ELSE opts.valid_directives
        predicate == MapGet(validator, doc.nodes[i].text)
    IN  IF DOMAIN validator = {} THEN <<>>
        ELSE IF IsSome(predicate) THEN validate_predicate(doc, Unwrap(predicate), i)
        ELSE <<Diagnostic(lsp_range(doc, doc.nodes[i]), WARNING_SEVERITY,
                          "Unrecognized " \o capture_name \o " \"" \o doc.nodes[i].text \o "\"")>>

PatternArm(doc, i) ==
    IF Captures(doc, i) # {} THEN <<>>
    ELSE <<[Diagnostic(lsp_range(doc, doc.nodes[i]), WARNING_SEVERITY,
                       "This pattern has no captures, and will not be processed")
            EXCEPT !.tags = Some(<<"UNNECESSARY">>), !.data = Some("Remove")]>>

IdentifierArm(doc, opts, i) ==
    IF opts.diagnostic_options.string_argument_style # "PreferQuoted" THEN <<>>
    ELSE <<[Diagnostic(lsp_range(doc, doc.nodes[i]), HINT_SEVERITY,
                       "Unquoted string argument (fix available)")
            EXCEPT !.data = Some("Enquote")]>>

EscapeArm(doc, i) ==
    LET capture_text == doc.nodes[i].text
    IN  IF Len(capture_text) < 2 \/ SubSeq(capture_text, 2, 2) \in KeptEscapes THEN <<>>
        ELSE <<[Diagnostic(lsp_range(doc, doc.nodes[i]), WARNING_SEVERITY,
                           "Unnecessary escape sequence (fix available)")
                EXCEPT !.data = Some("RemoveBackslash")]>>

Letters ==
    {"a", "b", "c", "d", "e", "f", "g", "h", "i", "j", "k", "l", "m",
     "n", "o", "p", "q", "r", "s", "t", "u", "v", "w", "x", "y", "z",
     "A", "B", "C", "D", "E", "F", "G", "H", "I", "J", "K", "L", "M",
     "N", "O", "P", "Q", "R", "S", "T", "U", "V", "W", "X", "Y", "Z"}
Digits == {"0", "1", "2", "3", "4", "5", "6", "7", "8", "9"}

\* IDENTIFIER_REGEX.is_match: ^[a-zA-Z0-9_-][a-zA-Z0-9_.-]*$
IDENTIFIER_REGEX(text) ==
    /\ Len(text) >= 1
    /\ SubSeq(text, 1, 1) \in Letters \cup Digits \cup {"_", "-"}
    /\ \A k \in 2..Len(text) : SubSeq(text, k, k) \in Letters \cup Digits \cup {"_", "-", "."}

StringArm(doc, opts, i) ==
    IF opts.diagnostic_options.string_argument_style # "PreferUnquoted" THEN <<>>
    ELSE IF Children(doc, i) # {} \/ ~IDENTIFIER_REGEX(doc.nodes[i].text) THEN <<>>
    ELSE LET range == lsp_range(doc, doc.nodes[i])
         IN  <<[Diagnostic(Range(Position(range.start.line, range.start.character - 1),
                                 Position(range.end.line, range.end.character + 1)),
                           HINT_SEVERITY, "Unnecessary quotations (fix available)")
                EXCEPT !.data = Some("Trim")]>>

\* the body of the loop over the captures of a match
ScanSite(doc, uri, language_data, opts, site) ==
    LET i == site.node
        node == doc.nodes[i]
    IN  CASE site.name \in {"node.named", "node.anonymous"} ->
                NodeArm(doc, language_data, site.name, node)
          [] site.name = "supertype" -> SupertypeArm(doc, language_data, i)
          [] site.name = "field" -> FieldArm(doc, language_data, node)
          [] site.name = "error" ->
                <<Diagnostic(lsp_range(doc, node), ERROR_SEVERITY, "Invalid syntax")>>
          [] site.name = "missing" ->
                <<Diagnostic(lsp_range(doc, node), ERROR_SEVERITY,
                             "Missing \"" \o node.kind \o "\"")>>
          [] site.name = "capture.reference" -> CaptureReferenceArm(doc, i)
          [] site.name = "capture.definition" -> CaptureDefinitionArm(doc, uri, opts, i)
          [] site.name \in {"predicate", "directive"} ->
                PredicateArm(doc, opts, site.name, i)
          [] site.name = "escape" -> EscapeArm(doc, i)
          [] site.name = "pattern" -> PatternArm(doc, i)
          [] site.name = "string" -> StringArm(doc, opts, i)
          [] site.name = "identifier" -> IdentifierArm(doc, opts, i)
          [] OTHER -> <<>>

\* the scan under the options read guard: the diagnostics it pushes, in
\* match order
AstScan(doc, uri, language_data, opts) ==
    Flatten([k \in 1..Len(doc.sites) |-> ScanSite(doc, uri, language_data, opts, doc.sites[k])])

---------------------------------------------------------------------------
(* The import walker and the recursion of get_diagnostics_recursively      *)

\* the range of an import: line 0, columns start..end
ImportRange(import) == Range(Position(0, import.start), Position(0, import.end))

\* the diagnostic pushed at the end of the loop body
QueryModuleNotFound(import) ==
    Diagnostic(ImportRange(import), WARNING_SEVERITY, "Query module not found")

\* a walker without cycle break
NeverSeen(s, uri) == FALSE

\* seen.contains(uri)
SeenContains(s, uri) == uri \in s

\* a walker that forgets to insert
SeenKeep(s, uri) == s

\* seen.insert(uri.clone())
SeenInsert(s, uri) == s \cup {uri}

\* a recursive call that looks up the language data of the imported document
ImportedLanguageData(language_data, doc) ==
    IF IsSome(doc.language_name) THEN MapGet(language_map, Unwrap(doc.language_name))
    ELSE None

\* the language data handed to the recursive call for an imported document
RecursiveLanguageData(language_data, doc) == language_data

\* the numerically largest severity (the least severe one)
Max(a, b) == IF a >= b THEN a ELSE b

\* std::cmp::min
Min(a, b) == IF a <= b THEN a ELSE b

\* let mut severity = HINT; ... severity = min(severity, sev) over the inner
\* diagnostics that have a severity
RECURSIVE FoldSeverity(_, _)
FoldSeverity(severity, inner_diags) ==
    IF inner_diags = <<>> THEN severity
    ELSE FoldSeverity(IF IsSome(Head(inner_diags).severity)
                      THEN Min(severity, Unwrap(Head(inner_diags).severity))
                      ELSE severity,
                      Tail(inner_diags))

\* DiagnosticRelatedInformation { message, location: Location { uri, range } }
RelatedInformation(uri, diag) ==
    [message |-> diag.message, location |-> [uri |-> uri, range |-> diag.range]]

\* inner_diags.into_iter().map(..).collect()
CollectRelated(uri, inner_diags) ==
    [k \in 1..Len(inner_diags) |-> RelatedInformation(uri, inner_diags[k])]

\* a walker that reports a module whatever its call returned
IssuesAlways(import, uri, inner_diags) ==
    <<[Diagnostic(ImportRange(import), Some(FoldSeverity(HINT, inner_diags)),
                  "Issues in module")
       EXCEPT !.related_information = CollectRelated(uri, inner_diags)]>>

\* what the walker pushes once the recursive call has returned inner_diags
IssuesInModule(import, uri, inner_diags) ==
    LET related == CollectRelated(uri, inner_diags)
    IN  IF related # <<>>
        THEN <<[Diagnostic(ImportRange(import), Some(FoldSeverity(HINT, inner_diags)),
                           "Issues in module")
                EXCEPT !.related_information = related]>>
        ELSE <<>>

\* an append at the wrong end
Prepend(diagnostics, more) == more \o diagnostics

\* diagnostics.append(&mut more) and the pushes of the scan
Extend(diagnostics, more) == diagnostics \o more

\* an activation of get_diagnostics_recursively: pc is "imports" while the
\* import walker runs (index is the entry its loop is at, items its vector),
\* "worker" while the blocking pattern validation is awaited, "scan" while
\* the options read guard is awaited, "locked" while the guard is held and
\* the tree is scanned, "return" when it has returned
Frame(uri, doc, language_data, cache) ==
    [uri |-> uri, document |-> doc, language_data |-> language_data, cache |-> cache,
     pc |-> "imports", index |-> 1, items |-> <<>>, diagnostics |-> <<>>]

\* no chain of imports is longer than the number of URIs, plus the root
MaxDepth == Cardinality(Urls) + 2

Top == stack[Len(stack)]
SetTop(f) == [stack EXCEPT ![Len(stack)] = f]

InWalker ==
    /\ pc = "running"
    /\ stack # <<>>
    /\ Top.pc = "imports"
    /\ Top.index <= Len(Top.document.imported_uris)

CurrentImport == Top.document.imported_uris[Top.index]

\* a handler that answers a request for an unknown document with an empty
\* report
EmptyReport(uri) == [ok |-> TRUE, code |-> "", message |-> "", items |-> <<>>]

\* the Err(Error { code, message, data: None }) of fn diagnostic
DocumentNotFound(uri) ==
    [ok |-> FALSE, code |-> "InternalError",
     message |-> "Document not found for URI '" \o uri \o "'",
     items |-> <<>>]

\* fn diagnostic: the request for TEST_URI
diagnostic(uri) ==
    /\ pc = "idle"
    /\ IF IsSome(document_map[uri])
       THEN LET document == Unwrap(document_map[uri])
                language_data == IF IsSome(document.language_name)
                                 THEN MapGet(language_map, Unwrap(document.language_name))
                                 ELSE None
            IN  /\ stack' = <<Frame(uri, document, language_data, TRUE)>>
                /\ seen' = {}
                /\ pc' = "running"
                /\ response' = None
       ELSE /\ response' = Some(DocumentNotFound(uri))
            /\ pc' = "done"
            /\ UNCHANGED <<stack, seen>>
    /\ UNCHANGED <<document_map, options, QUERY_SCAN_CACHE, tasks>>

\* loop body, the URI is None or its document is absent: fall through to the
\* push at the end of the body
ImportNotFound ==
    /\ InWalker
    /\ LET import == CurrentImport
       IN  /\ \/ ~IsSome(import.uri)
              \/ /\ IsSome(import.uri)
                 /\ ~SeenContains(seen, Unwrap(import.uri))
                 /\ ~IsSome(document_map[Unwrap(import.uri)])
           /\ seen' = IF IsSome(import.uri) THEN SeenInsert(seen, Unwrap(import.uri))
                      ELSE seen
           /\ stack' = SetTop([Top EXCEPT !.items = Append(@, QueryModuleNotFound(import)),
                                          !.index = @ + 1])
    /\ UNCHANGED <<document_map, options, QUERY_SCAN_CACHE, pc, response, tasks>>

\* loop body, the URI is in the seen-set: continue
ImportSeen ==
    /\ InWalker
    /\ IsSome(CurrentImport.uri)
    /\ SeenContains(seen, Unwrap(CurrentImport.uri))
    /\ stack' = SetTop([Top EXCEPT !.index = @ + 1])
    /\ UNCHANGED <<document_map, options, QUERY_SCAN_CACHE, pc, seen, response, tasks>>

\* loop body, a new URI whose document exists: insert it and call
\* get_diagnostics_recursively for it (the walker is suspended on the await)
ImportRecurse ==
    /\ InWalker
    /\ Len(stack) < MaxDepth
    /\ IsSome(CurrentImport.uri)
    /\ LET uri == Unwrap(CurrentImport.uri)
       IN  /\ ~SeenContains(seen, uri)
           /\ IsSome(document_map[uri])
           /\ seen' = SeenInsert(seen, uri)
           /\ stack' = Append(stack,
                  Frame(uri, Unwrap(document_map[uri]),
                        RecursiveLanguageData(Top.language_data, Unwrap(document_map[uri])),
                        TRUE))
    /\ UNCHANGED <<document_map, options, QUERY_SCAN_CACHE, pc, response, tasks>>

\* the recursive call has returned: the rest of the loop body folds its
\* diagnostics into one diagnostic of the importer
ImportFold ==
    /\ pc = "running"
    /\ Len(stack) >= 2
    /\ Top.pc = "return"
    /\ LET callee == Top
           caller == stack[Len(stack) - 1]
           import == caller.document.imported_uris[caller.index]
       IN  stack' = [Front(stack) EXCEPT ![Len(stack) - 1] =
                        [caller EXCEPT
                            !.items = @ \o IssuesInModule(import, callee.uri, callee.diagnostics),
                            !.index = @ + 1]]
    /\ UNCHANGED <<document_map, options, QUERY_SCAN_CACHE, pc, seen, response, tasks>>

\* the walker has gone through the list: its items start the diagnostics
ImportsReturn ==
    /\ pc = "running"
    /\ stack # <<>>
    /\ Top.pc = "imports"
    /\ Top.index > Len(Top.document.imported_uris)
    /\ stack' = SetTop([Top EXCEPT !.diagnostics = Top.items, !.pc = "worker"])
    /\ UNCHANGED <<document_map, options, QUERY_SCAN_CACHE, pc, seen, response, tasks>>

\* the blocking worker has run over the definitions; its diagnostics are
\* appended
PatternValidation ==
    /\ pc = "running"
    /\ stack # <<>>
    /\ Top.pc = "worker"
    /\ LET r == PatternValidator(Top.document, Top.language_data, Top.cache, QUERY_SCAN_CACHE)
       IN  /\ stack' = SetTop([Top EXCEPT !.diagnostics = Extend(@, r.diagnostics),
                                          !.pc = "scan"])
           /\ QUERY_SCAN_CACHE' = r.cache
    /\ UNCHANGED <<document_map, options, pc, seen, response, tasks>>

\* options_arc.read().await has completed: the activation holds a read guard
\* on the shared options from here to its return
OptionsRead ==
    /\ pc = "running"
    /\ stack # <<>>
    /\ Top.pc = "scan"
    /\ stack' = SetTop([Top EXCEPT !.pc = "locked"])
    /\ UNCHANGED <<document_map, options, QUERY_SCAN_CACHE, pc, seen, response, tasks>>

\* a scan that fetches the document from the store again
StoreDocument(f) ==
    IF IsSome(document_map[f.uri]) THEN Unwrap(document_map[f.uri]) ELSE f.document

\* let rope = &document.rope; let tree = &document.tree
ScannedDocument(f) == f.document

\* the scan of the tree under the guard, then the return, which drops the guard
Scan ==
    /\ pc = "running"
    /\ stack # <<>>
    /\ Top.pc = "locked"
    /\ stack' = SetTop([Top EXCEPT
                           !.diagnostics = Extend(@, AstScan(ScannedDocument(Top), Top.uri,
                                                             Top.language_data, options)),
                           !.pc = "return"])
    /\ UNCHANGED <<document_map, options, QUERY_SCAN_CACHE, pc, seen, response, tasks>>

\* get_diagnostics has returned to fn diagnostic: the full report
Respond ==
    /\ pc = "running"
    /\ Len(stack) = 1
    /\ Top.pc = "return"
    /\ response' = Some([ok |-> TRUE, code |-> "", message |-> "",
                         items |-> Top.diagnostics])
    /\ stack' = <<>>
    /\ pc' = "done"
    /\ UNCHANGED <<document_map, options, QUERY_SCAN_CACHE, seen, tasks>>

---------------------------------------------------------------------------
(* The document stores a request may find *)

ImportUris == {None} \cup {Some(u) : u \in Urls}

DefaultOptions ==
    Options(MapInsert(EmptyMap, "test", {"capture"}), EmptyMap, EmptyMap,
            "PreferQuoted", FALSE)

\* the URIs the imports of present documents lead to from the requested one
RECURSIVE ReachFrom(_, _, _)
ReachFrom(store, R, n) ==
    IF n = 0 THEN R
    ELSE ReachFrom(store,
                   R \cup {u \in Urls : \E v \in R :
                              /\ IsSome(store[v])
                              /\ \E k \in 1..Len(Unwrap(store[v]).imported_uris) :
                                    Unwrap(store[v]).imported_uris[k].uri = Some(u)},
                   n - 1)

\* documents no import chain leads to are never read: they are left out
Relevant(store) ==
    \A u \in Urls : IsSome(store[u]) => u \in ReachFrom(store, {TEST_URI}, Cardinality(Urls))

\* the import entries E dealt to u1 (the first a), u2 (up to b) and u3
StoreOf(E, a, b, t1, t2, t3) ==
    [u \in Urls |->
        CASE u = "u1" -> Some(DocumentData("u1", SubSeq(E, 1, a), t1))
          [] u = "u2" -> IF t2 = "" THEN None
                         ELSE Some(DocumentData("u2", SubSeq(E, a + 1, b), t2))
          [] u = "u3" -> IF t3 = "" THEN None
                         ELSE Some(DocumentData("u3", SubSeq(E, b + 1, Len(E)), t3))]

Stores ==
    {[u \in Urls |-> None]} \cup
    {s \in {StoreOf(c[1], c[2], c[3], c[4], c[5], c[6]) :
               c \in {c \in SeqsUpTo(ImportUris, MaxEdges) \X (0..MaxEdges) \X (0..MaxEdges)
                             \X SourcesAt("u1") \X (SourcesAt("u2") \cup {""})
                             \X (SourcesAt("u3") \cup {""}) :
                         /\ c[2] <= c[3] /\ c[3] <= Len(c[1])
                         /\ (c[5] = "" => c[2] = c[3])
                         /\ (c[6] = "" => c[3] = Len(c[1]))}} :
        Relevant(s)}

NoTasks == <<>>

Init ==
    /\ document_map \in Stores
    /\ options = DefaultOptions
    /\ QUERY_SCAN_CACHE = EmptyMap
    /\ pc = "idle"
    /\ stack = <<>>
    /\ seen = {}
    /\ response = None
    /\ tasks = NoTasks

Next ==
    \/ diagnostic(TEST_URI)
    \/ ImportNotFound
    \/ ImportSeen
    \/ ImportRecurse
    \/ ImportFold
    \/ ImportsReturn
    \/ PatternValidation
    \/ OptionsRead
    \/ Scan
    \/ Respond

Spec == Init /\ [][Next]_vars

---------------------------------------------------------------------------
(* Pattern validations running side by side on blocking workers: each task *)
(* is one call of the loop body of the worker for one definition, cached   *)
(* (get_pattern_diagnostic_cached, step by step) or not.                   *)

\* pc: "start", then for a cached call that misses "compile" and "insert",
\* then "done"; byte_offset is the local of the cached call once computed
Task(ld, text, cache) ==
    [language_name |-> ld.name, language |-> Unwrap(ld.language), pattern_text |-> text,
     cache |-> cache, pc |-> "start", byte_offset |-> None, result |-> None]

TaskInputs(lds, texts) == {Task(ld, text, c) : ld \in lds, text \in texts, c \in BOOLEAN}

TaskKey(t) == pattern_key(tasks[t].language_name, tasks[t].pattern_text)

\* QUERY_SCAN_CACHE.get(&pattern_key) finds the entry: return it
CacheHit ==
    \E t \in DOMAIN tasks :
        /\ tasks[t].pc = "start"
        /\ tasks[t].cache
        /\ IsSome(MapGet(QUERY_SCAN_CACHE, TaskKey(t)))
        /\ tasks' = [tasks EXCEPT ![t].result = Unwrap(MapGet(QUERY_SCAN_CACHE, TaskKey(t))),
                                  ![t].pc = "done"]
        /\ UNCHANGED <<document_map, options, QUERY_SCAN_CACHE, pc, stack, seen, response>>

\* QUERY_SCAN_CACHE.get(&pattern_key) finds nothing
CacheMiss ==
    \E t \in DOMAIN tasks :
        /\ tasks[t].pc = "start"
        /\ tasks[t].cache
        /\ ~IsSome(MapGet(QUERY_SCAN_CACHE, TaskKey(t)))
        /\ tasks' = [tasks EXCEPT ![t].pc = "compile"]
        /\ UNCHANGED <<document_map, options, QUERY_SCAN_CACHE, pc, stack, seen, response>>

\* let byte_offset = get_pattern_diagnostic(&pattern_key.1, language)
Compile ==
    \E t \in DOMAIN tasks :
        /\ tasks[t].pc = "compile"
        /\ tasks' = [tasks EXCEPT
                        ![t].byte_offset =
                            Some(get_pattern_diagnostic(tasks[t].pattern_text, tasks[t].language)),
                        ![t].pc = "insert"]
        /\ UNCHANGED <<document_map, options, QUERY_SCAN_CACHE, pc, stack, seen, response>>

\* QUERY_SCAN_CACHE.insert(pattern_key, byte_offset); byte_offset
CacheInsert ==
    \E t \in DOMAIN tasks :
        /\ tasks[t].pc = "insert"
        /\ QUERY_SCAN_CACHE' = MapInsert(QUERY_SCAN_CACHE, TaskKey(t), Unwrap(tasks[t].byte_offset))
        /\ tasks' = [tasks EXCEPT ![t].result = Unwrap(tasks[t].byte_offset), ![t].pc = "done"]
        /\ UNCHANGED <<document_map, options, pc, stack, seen, response>>

\* cache = false: get_pattern_diagnostic(&capture.node.text(&rope), language)
Uncached ==
    \E t \in DOMAIN tasks :
        /\ tasks[t].pc = "start"
        /\ ~tasks[t].cache
        /\ tasks' = [tasks EXCEPT
                        ![t].result = get_pattern_diagnostic(tasks[t].pattern_text,
                                                             tasks[t].language),
                        ![t].pc = "done"]
        /\ UNCHANGED <<document_map, options, QUERY_SCAN_CACHE, pc, stack, seen, response>>

\* a later request validates the same definition again
Revalidate ==
    \E t \in DOMAIN tasks :
        /\ tasks[t].pc = "done"
        /\ tasks' = [tasks EXCEPT ![t].pc = "start", ![t].byte_offset = None,
                                  ![t].result = None]
        /\ UNCHANGED <<document_map, options, QUERY_SCAN_CACHE, pc, stack, seen, response>>

NextCache ==
    \/ CacheHit
    \/ CacheMiss
    \/ Compile
    \/ CacheInsert
    \/ Uncached
    \/ Revalidate

NoRequest ==
    /\ document_map = [u \in Urls |-> None]
    /\ options = DefaultOptions
    /\ pc = "idle"
    /\ stack = <<>>
    /\ seen = {}
    /\ response = None

\* NumTasks validations over two grammars and a pattern they judge differently
CacheLanguages == {LD_JS, LD_CSS}
CacheTexts == {T_NEST}

InitCache ==
    /\ NoRequest
    /\ QUERY_SCAN_CACHE = EmptyMap
    /\ tasks \in [1..NumTasks -> TaskInputs(CacheLanguages, CacheTexts)]

SpecCache == InitCache /\ [][NextCache]_vars

\* one validation of any pattern under any grammar
ScanLanguages == {LD_JS, LD_CSS, LD_OLD}
ScanTexts == {T_CAP, T_HINT, T_SQUID, T_ID, T_NEST, T_SYNTAX, T_FIELD, T_UNDECL,
              T_PRED, T_SQUIDS}

InitScan ==
    /\ NoRequest
    /\ QUERY_SCAN_CACHE = EmptyMap
    /\ tasks \in [1..1 -> TaskInputs(ScanLanguages, ScanTexts)]

SpecScan == InitScan /\ [][NextCache]_vars

---------------------------------------------------------------------------
(* A call of get_diagnostics by any caller, next to the other tasks of the *)
(* server: the store and the options are shared and change under the call. *)

\* at most this many import entries in the requested document
MaxSharedImports == 1

\* LanguageData whose grammar could not be loaded (language: None)
LD_NOGRAMMAR == [LD_JS EXCEPT !.language = None]

\* the language data a caller may pass
CallerLanguageData == {None, Some(LD_JS), Some(LD_NOGRAMMAR)}

\* pub async fn get_diagnostics(uri, document_map, document, language_data,
\* options_arc, cache): the caller has fetched the document from the store
get_diagnostics(uri, language_data, cache) ==
    /\ pc = "idle"
    /\ IsSome(document_map[uri])
    /\ stack' = <<Frame(uri, Unwrap(document_map[uri]), language_data, cache)>>
    /\ seen' = {}
    /\ pc' = "running"
    /\ response' = None
    /\ UNCHANGED <<document_map, options, QUERY_SCAN_CACHE, tasks>>

GetDiagnostics ==
    \E language_data \in CallerLanguageData, cache \in BOOLEAN :
        get_diagnostics(TEST_URI, language_data, cache)

\* a read guard taken when the activation starts and kept to its return
GuardHeldFromStart(f) == f.pc \in {"imports", "worker", "scan", "locked"}

\* whether an activation holds a read guard on the shared options: from the
\* completion of options_arc.read().await to its return
GuardHeld(f) == f.pc = "locked"

SharedSourcesAt(uri) ==
    CASE uri = "u1" -> {T_CAP, T_NEST}
      [] uri = "u2" -> {T_SQUID, T_ID}
      [] uri = "u3" -> {}

\* another task replaces a document of the store (an edit or a reload): an
\* insert into the shared DashMap
DidChange ==
    \E uri \in Urls : \E text \in SharedSourcesAt(uri) :
        /\ document_map[uri] # Some(DocumentData(uri, <<>>, text))
        /\ document_map' = [document_map EXCEPT ![uri] = Some(DocumentData(uri, <<>>, text))]
        /\ UNCHANGED <<options, QUERY_SCAN_CACHE, pc, stack, seen, response, tasks>>

\* the options after a configuration change that allows one more capture
ChangedOptions ==
    Options(MapInsert(EmptyMap, "test", {"capture", "nest"}), EmptyMap, EmptyMap,
            "PreferQuoted", FALSE)

\* another task takes the write lock of the options, which no read guard may
\* be held for, and stores new options
OptionsWrite ==
    /\ \A i \in 1..Len(stack) : ~GuardHeld(stack[i])
    /\ options' = IF options = DefaultOptions THEN ChangedOptions ELSE DefaultOptions
    /\ UNCHANGED <<document_map, QUERY_SCAN_CACHE, pc, stack, seen, response, tasks>>

SharedStores ==
    {StoreOf(E, Len(E), Len(E), t1, t2, "") :
        E \in SeqsUpTo({Some("u1"), Some("u2")}, MaxSharedImports),
        t1 \in SharedSourcesAt("u1"), t2 \in {"", T_SQUID}}

InitShared ==
    /\ document_map \in SharedStores
    /\ options = DefaultOptions
    /\ QUERY_SCAN_CACHE = EmptyMap
    /\ pc = "idle"
    /\ stack = <<>>
    /\ seen = {}
    /\ response = None
    /\ tasks = NoTasks

NextShared ==
    \/ GetDiagnostics
    \/ ImportNotFound
    \/ ImportSeen
    \/ ImportRecurse
    \/ ImportFold
    \/ ImportsReturn
    \/ PatternValidation
    \/ OptionsRead
    \/ Scan
    \/ Respond
    \/ DidChange
    \/ OptionsWrite

SpecShared == InitShared /\ [][NextShared]_vars

---------------------------------------------------------------------------
(* A call on one document without imports: every arm of the scan is        *)
(* reached, with the language data and the options of the caller.          *)

LD_TS ==
    [LanguageData("ts", Some("ts"),
                  {SymbolInfo("identifier", TRUE), SymbolInfo("expression", TRUE),
                   SymbolInfo("statement", TRUE), SymbolInfo("func", FALSE)},
                  {"name"})
     EXCEPT !.supertype_map =
        MapInsert(MapInsert(EmptyMap, SymbolInfo("expression", TRUE),
                            {SymbolInfo("identifier", TRUE)}),
                  SymbolInfo("statement", TRUE), {})]

LD_TS_NOGRAMMAR == [LD_TS EXCEPT !.language = None]

AstLanguageData == {None, Some(LD_TS), Some(LD_TS_NOGRAMMAR)}

AstTexts ==
    {T_NEST, T_HINT, T_ID, T_SUPER1, T_SUPER2, T_SUPER3, T_ANON, T_FIELD, T_SYNTAX,
     T_ERROR, T_STR}

\* #eq? takes two captures; string arguments are preferred unquoted
EqOptions ==
    Options(MapInsert(EmptyMap, "test", {"capture"}),
            MapInsert(EmptyMap, "eq", <<PredicateParameter("capture", "required"),
                                        PredicateParameter("capture", "required")>>),
            EmptyMap, "PreferUnquoted", TRUE)

\* only #match? is known
MatchOptions ==
    Options(EmptyMap,
            MapInsert(EmptyMap, "match", <<PredicateParameter("capture", "required"),
                                           PredicateParameter("string", "required")>>),
            EmptyMap, "None", TRUE)

AstOptions == {DefaultOptions, EqOptions, MatchOptions}

\* the store holds the requested document only
StoreOfOne(doc) == [u \in Urls |-> IF u = TEST_URI THEN Some(doc) ELSE None]

AstDocuments == {DocumentData(TEST_URI, <<>>, text) : text \in AstTexts}

GetDiagnosticsAst ==
    \E language_data \in AstLanguageData, cache \in BOOLEAN :
        get_diagnostics(TEST_URI, language_data, cache)

InitAst ==
    /\ document_map \in {StoreOfOne(doc) : doc \in AstDocuments}
    /\ options \in AstOptions
    /\ QUERY_SCAN_CACHE = EmptyMap
    /\ pc = "idle"
    /\ stack = <<>>
    /\ seen = {}
    /\ response = None
    /\ tasks = NoTasks

NextAst ==
    \/ GetDiagnosticsAst
    \/ ImportsReturn
    \/ PatternValidation
    \/ OptionsRead
    \/ Scan
    \/ Respond

SpecAst == InitAst /\ [][NextAst]_vars

---------------------------------------------------------------------------
(* Query sources put together from pieces: a piece is a stretch of source  *)
(* with its named nodes in preorder and its sites; parents and bytes are   *)
(* relative to the piece, parent 0 is the node the piece is put under.     *)

Piece(text, nodes, sites) == [text |-> text, nodes |-> nodes, sites |-> sites]

Leaf(kind, text, site) ==
    Piece(text, <<Node(kind, 0, 0, Len(text), text)>>,
          IF site = "" THEN <<>> ELSE <<Site(site, 1)>>)

\* the piece moved by ib nodes and bb bytes, under the node parent
Shift(piece, parent, ib, bb) ==
    Piece(piece.text,
          [k \in 1..Len(piece.nodes) |->
              [piece.nodes[k] EXCEPT !.parent = IF @ = 0 THEN parent ELSE @ + ib,
                                     !.start_byte = @ + bb,
                                     !.end_byte = @ + bb]],
          [k \in 1..Len(piece.sites) |-> [piece.sites[k] EXCEPT !.node = @ + ib]])

\* pieces one after the other, sep between them
RECURSIVE Join(_, _)
Join(pieces, sep) ==
    IF pieces = <<>> THEN Piece("", <<>>, <<>>)
    ELSE IF Len(pieces) = 1 THEN pieces[1]
    ELSE LET first == pieces[1]
             rest == Shift(Join(Tail(pieces), sep), 0, Len(first.nodes),
                           Len(first.text) + Len(sep))
         IN  Piece(first.text \o sep \o rest.text, first.nodes \o rest.nodes,
                   first.sites \o rest.sites)

\* a node of the given kind around a piece
Inside(kind, open, piece, close, sites) ==
    LET text == open \o piece.text \o close
        inner == Shift(piece, 1, 1, Len(open))
    IN  Piece(text, <<Node(kind, 0, 0, Len(text), text)>> \o inner.nodes,
              sites \o inner.sites)

\* what a capture can be attached to
Holder(kind) ==
    LET name == Leaf("identifier", "identifier", "node.named")
        named_node == Inside("named_node", "(", name, ")", <<>>)
    IN  CASE kind = "named_node" -> named_node
          [] kind = "list" -> Inside("list", "[", named_node, "]", <<>>)
          [] kind = "grouping" -> Inside("grouping", "(", named_node, ")", <<>>)
          [] kind = "anonymous_node" ->
                Inside("anonymous_node", "",
                       Inside("string", "\"", Leaf("string_content", "func", "node.anonymous"),
                              "\"", <<>>),
                       "", <<>>)
          [] kind = "missing_node" -> Inside("missing_node", "(MISSING ", name, ")", <<>>)

\* holder @capture: the capture is the last child of the holder
Captured(holder, capture_text) ==
    IF capture_text = "" THEN holder
    ELSE LET text == holder.text \o " " \o capture_text
             capture == Shift(Leaf("capture", capture_text, "capture.definition"),
                              1, Len(holder.nodes), Len(holder.text) + 1)
         IN  Piece(text,
                   <<[holder.nodes[1] EXCEPT !.end_byte = Len(text), !.text = text]>>
                       \o Tail(holder.nodes) \o capture.nodes,
                   holder.sites \o capture.sites)

\* a parameter of a predicate: a capture, an identifier, a string, or a
\* MISSING node put in by the parser
Parameter(p) ==
    CASE p = "identifier" -> Leaf("identifier", "foo", "identifier")
      [] p = "string" ->
            Inside("string", "\"", Leaf("string_content", "s", "string"), "\"", <<>>)
      [] p = "MISSING" ->
            Piece("", <<[Node("identifier", 0, 0, 0, "") EXCEPT !.is_missing = TRUE]>>,
                  <<Site("missing", 1)>>)
      [] OTHER -> Leaf("capture", p, "capture.reference")

\* (#name? parameters) or (#name! parameters): predicate with the children
\* name, type, parameters; the name is a predicate or a directive site
Call(name, type, params) ==
    Inside("predicate", "(#",
           Join(<<Join(<<Leaf("identifier", name,
                              IF type = "?" THEN "predicate" ELSE "directive"),
                         Leaf("predicate_type", type, "")>>, ""),
                  Inside("parameters", "",
                         Join([k \in 1..Len(params) |-> Parameter(params[k])], " "),
                         "", <<>>)>>, " "),
           ")", <<>>)

PredicateCall(name, params) == Call(name, "?", params)

\* the source of a document from its top-level patterns
SourceFrom(patterns) ==
    LET all == Join(patterns, " ")
        tops == {k \in 1..Len(all.nodes) : all.nodes[k].parent = 0}
        program == Inside("program", "", all, "", <<>>)
    IN  Piece(program.text, program.nodes,
              [k \in 1..Cardinality(tops) |-> Site("pattern", Ascending(tops)[k] + 1)]
                  \o program.sites)

\* DocumentData of a source without inherits line
DocumentFrom(uri, source) ==
    [language_name |-> LanguageNameOf(uri),
     imported_uris |-> ImportEntries(<<>>),
     text |-> source.text,
     line |-> 0,
     line_start |-> 0,
     nodes |-> source.nodes,
     sites |-> source.sites]

---------------------------------------------------------------------------
(* Calls on documents of captures: up to MaxPatterns top-level patterns,   *)
(* each a holder with or without a capture, alone or in a grouping with a  *)
(* predicate that refers to a capture.                                     *)

MaxPatterns == 2

DefinitionTexts == {"", "@a", "@_a", "@b"}
ReferenceTexts == {"", "@a", "@_a"}

CapturePattern(kind, definition, reference) ==
    IF reference = "" THEN Captured(Holder(kind), definition)
    ELSE Inside("grouping", "(",
                Join(<<Captured(Holder(kind), definition),
                       PredicateCall("eq", <<reference>>)>>, " "),
                ")", <<>>)

CapturePatterns(kinds, definitions) ==
    {CapturePattern(kind, definition, reference) :
        kind \in kinds, definition \in definitions, reference \in ReferenceTexts}

\* one pattern with any holder, or several patterns of named nodes
CaptureSources ==
    {SourceFrom(<<pattern>>) :
        pattern \in CapturePatterns(CaptureDefinitionParents, DefinitionTexts)}
        \cup {SourceFrom(patterns) :
                 patterns \in UNION {[1..n -> CapturePatterns({"named_node"},
                                                              {"", "@a", "@_a"})] :
                                        n \in 2..MaxPatterns}}

\* valid_captures: no table, a table for this basename, a table for another
CaptureTables ==
    {EmptyMap, MapInsert(EmptyMap, "test", {"a"}), MapInsert(EmptyMap, "other", {"a"})}

CaptureOptions ==
    {Options(caps, EmptyMap, EmptyMap, "None", warn) :
        caps \in CaptureTables, warn \in BOOLEAN}

InitCaptures ==
    /\ document_map \in {StoreOfOne(DocumentFrom(TEST_URI, source)) :
                            source \in CaptureSources}
    /\ options \in CaptureOptions
    /\ QUERY_SCAN_CACHE = EmptyMap
    /\ pc = "idle"
    /\ stack = <<>>
    /\ seen = {}
    /\ response = None
    /\ tasks = NoTasks

SpecCaptures == InitCaptures /\ [][NextAst]_vars

---------------------------------------------------------------------------
(* Calls on documents of one predicate or directive call: up to MaxParams  *)
(* parameters against up to MaxSpecs parameter specs.                      *)

MaxSpecs == 2
MaxParams == 3

ParameterTypes == {"capture", "string", "any"}
ParameterArities == {"required", "optional", "variadic"}

ParameterSpecs ==
    SeqsUpTo({PredicateParameter(t, a) : t \in ParameterTypes, a \in ParameterArities},
             MaxSpecs)

ParameterKinds == {"@a", "identifier", "string"}

WithMissing(params, k) ==
    SubSeq(params, 1, k) \o <<"MISSING">> \o SubSeq(params, k + 1, Len(params))

\* the parameters passed, and the lists in which the parser put one MISSING
\* node, at the end or before other parameters
ParameterLists ==
    SeqsUpTo(ParameterKinds, MaxParams)
        \cup {WithMissing(p[1], p[2]) :
                 p \in {q \in SeqsUpTo(ParameterKinds, MaxParams - 1) \X (0..(MaxParams - 1)) :
                           q[2] <= Len(q[1])}}

CallSource(type, params) ==
    SourceFrom(<<Inside("grouping", "(",
                        Join(<<Captured(Holder("named_node"), "@a"),
                               Call("eq", type, params)>>, " "),
                        ")", <<>>)>>)

CallOptions(type, specs) ==
    Options(EmptyMap,
            IF type = "?" THEN MapInsert(EmptyMap, "eq", specs) ELSE EmptyMap,
            IF type = "!" THEN MapInsert(EmptyMap, "eq", specs) ELSE EmptyMap,
            "None", FALSE)

\* directives go through the same validator: they are called with one spec
\* at most; the longest parameter lists are held against the shortest spec
\* lists
CallInputs ==
    {c \in {"?", "!"} \X ParameterSpecs \X ParameterLists :
        /\ c[1] = "!" => Len(c[2]) <= 1
        /\ Len(c[2]) + Len(c[3]) <= MaxParams + 1}

GetDiagnosticsCall == get_diagnostics(TEST_URI, None, FALSE)

InitCalls ==
    /\ \E c \in CallInputs :
          /\ document_map = StoreOfOne(DocumentFrom(TEST_URI, CallSource(c[1], c[3])))
          /\ options = CallOptions(c[1], c[2])
    /\ QUERY_SCAN_CACHE = EmptyMap
    /\ pc = "idle"
    /\ stack = <<>>
    /\ seen = {}
    /\ response = None
    /\ tasks = NoTasks

NextCalls ==
    \/ GetDiagnosticsCall
    \/ ImportsReturn
    \/ PatternValidation
    \/ OptionsRead
    \/ Scan
    \/ Respond

SpecCalls == InitCalls /\ [][NextCalls]_vars

---------------------------------------------------------------------------
(* Calls of one predicate or directive under every pairing of a predicate  *)
(* schema and a directive schema.                                          *)

\* a schema: empty, or with an entry for eq, for match, or for both
Schemas ==
    LET entry == <<PredicateParameter("capture", "required")>>
    IN  {EmptyMap,
         MapInsert(EmptyMap, "eq", entry),
         MapInsert(EmptyMap, "match", entry),
         MapInsert(MapInsert(EmptyMap, "eq", entry), "match", entry)}

SchemaOptions(predicates, directives) ==
    Options(EmptyMap, predicates, directives, "None", FALSE)

SchemaCalls == {<<>>, <<"@a">>, <<"identifier">>, <<"@a", "string">>}

InitSchemas ==
    /\ \E type \in {"?", "!"}, params \in SchemaCalls :
          document_map = StoreOfOne(DocumentFrom(TEST_URI, CallSource(type, params)))
    /\ \E predicates \in Schemas, directives \in Schemas :
          options = SchemaOptions(predicates, directives)
    /\ QUERY_SCAN_CACHE = EmptyMap
    /\ pc = "idle"
    /\ stack = <<>>
    /\ seen = {}
    /\ response = None
    /\ tasks = NoTasks

SpecSchemas == InitSchemas /\ [][NextCalls]_vars

---------------------------------------------------------------------------
(* Calls on documents of up to MaxPatterns captured nodes, named or        *)
(* anonymous, some of them with an escape sequence in the literal.         *)

NamedNode(label) ==
    Inside("named_node", "(", Leaf("identifier", label, "node.named"), ")", <<>>)

\* the content of a string: one node, with the escape sequence under it
Literal(before, escape, after) ==
    IF escape = "" THEN Leaf("string_content", before \o after, "node.anonymous")
    ELSE Inside("string_content", before, Leaf("escape_sequence", escape, "escape"), after,
                <<Site("node.anonymous", 1)>>)

AnonymousNode(content) ==
    Inside("anonymous_node", "", Inside("string", "\"", content, "\"", <<>>), "", <<>>)

NamedLabels == {"identifier", "squid", "func"}

Literals ==
    {<<"func", "", "">>, <<"identifier", "", "">>, <<"f", "\\u", "nc">>,
     <<"f", "\\a", "nc">>, <<"fu", "\\n", "c">>, <<"f", "\\\\", "unc">>}

NodePatterns ==
    {Captured(NamedNode(label), "@capture") : label \in NamedLabels}
        \cup {Captured(AnonymousNode(Literal(l[1], l[2], l[3])), "@capture") : l \in Literals}

NodeSources == {SourceFrom(patterns) : patterns \in SeqsUpTo(NodePatterns, MaxPatterns) \ {<<>>}}

InitNodes ==
    /\ document_map \in {StoreOfOne(DocumentFrom(TEST_URI, source)) : source \in NodeSources}
    /\ options = DefaultOptions
    /\ QUERY_SCAN_CACHE = EmptyMap
    /\ pc = "idle"
    /\ stack = <<>>
    /\ seen = {}
    /\ response = None
    /\ tasks = NoTasks

SpecNodes == InitNodes /\ [][NextAst]_vars

---------------------------------------------------------------------------
(* Calls on a document with or without an inherits line, whose modules are *)
(* unresolved, absent, or present with diagnostics of their own.           *)

RangeTexts == {T_NEST, T_STR, T_SYNTAX, T_HINT, T_ANON}

RangeImports ==
    {<<>>, <<Some("u2")>>, <<Some("u2"), Some("u2")>>, <<None, Some("u2"), Some("u3")>>}

RangeStores ==
    {[u \in Urls |->
         CASE u = "u1" -> Some(DocumentData("u1", c[1], c[2]))
           [] u = "u2" -> IF c[3] = "" THEN None ELSE Some(DocumentData("u2", <<>>, c[3]))
           [] OTHER -> None] :
        c \in RangeImports \X RangeTexts \X {"", T_NEST, T_STR}}

InitRanges ==
    /\ document_map \in RangeStores
    /\ options \in {DefaultOptions, EqOptions}
    /\ QUERY_SCAN_CACHE = EmptyMap
    /\ pc = "idle"
    /\ stack = <<>>
    /\ seen = {}
    /\ response = None
    /\ tasks = NoTasks

NextRanges ==
    \/ GetDiagnosticsAst
    \/ ImportNotFound
    \/ ImportSeen
    \/ ImportRecurse
    \/ ImportFold
    \/ ImportsReturn
    \/ PatternValidation
    \/ OptionsRead
    \/ Scan
    \/ Respond

SpecRanges == InitRanges /\ [][NextRanges]_vars

---------------------------------------------------------------------------
(* remove_unnecessary_escapes applied to every string of up to MaxLen      *)
(* characters, and then to its own result.                                 *)

MaxLen == 4

\* a backslash, two characters that keep it, one that does not
EscapeAlphabet == {"\\", "\"", "n", "a"}

RECURSIVE StringsUpTo(_)
StringsUpTo(n) ==
    IF n = 0 THEN {""}
    ELSE LET shorter == StringsUpTo(n - 1)
         IN  shorter \cup {s \o c : s \in shorter, c \in EscapeAlphabet}

Filtering(input) == [input |-> input, once |-> None, twice |-> None]

InitEscapes ==
    /\ tasks \in {<<Filtering(input)>> : input \in StringsUpTo(MaxLen)}
    /\ document_map = [u \in Urls |-> None]
    /\ options = DefaultOptions
    /\ QUERY_SCAN_CACHE = EmptyMap
    /\ pc = "idle"
    /\ stack = <<>>
    /\ seen = {}
    /\ response = None

\* let capture_text = remove_unnecessary_escapes(&capture_text)
RemoveEscapes ==
    /\ tasks[1].once = None
    /\ tasks' = <<[tasks[1] EXCEPT !.once = Some(remove_unnecessary_escapes(tasks[1].input))]>>
    /\ UNCHANGED <<document_map, options, QUERY_SCAN_CACHE, pc, stack, seen, response>>

\* the function applied to its own result
RemoveEscapesAgain ==
    /\ IsSome(tasks[1].once)
    /\ tasks[1].twice = None
    /\ tasks' = <<[tasks[1] EXCEPT
                      !.twice = Some(remove_unnecessary_escapes(Unwrap(tasks[1].once)))]>>
    /\ UNCHANGED <<document_map, options, QUERY_SCAN_CACHE, pc, stack, seen, response>>

NextEscapes ==
    \/ RemoveEscapes
    \/ RemoveEscapesAgain

SpecEscapes == InitEscapes /\ [][NextEscapes]_vars

---------------------------------------------------------------------------
(* The selection range request: for each position, the chain of ranges     *)
(* from the root of the tree down to the named node at the position.       *)

MaxPositions == 2

\* SelectionRange { range, parent }
SelectionRange(range, parent) == [range |-> range, parent |-> parent]

\* Position::to_ts_point and the byte it stands for in a one-line source
to_ts_point(doc, position) == doc.line_start + position.character

\* Node::child_with_descendant: the child of node i on the way to d, None
\* when i is d
child_with_descendant(doc, i, d) ==
    IF i = d THEN None
    ELSE Some(CHOOSE j \in Children(doc, i) : IsWithin(doc, d, j))

\* a loop that makes a link of every node on the way
NeverCollapsed(range, innermost) == FALSE

\* if range == selection_range.range { continue; }
Collapsed(range, innermost) == range = innermost.range

\* the while loop of selection_range from node i; innermost is the
\* variable selection_range of the code
RECURSIVE Descend(_, _, _, _)
Descend(doc, i, descendant, innermost) ==
    LET child == child_with_descendant(doc, i, descendant)
    IN  IF ~IsSome(child) THEN innermost
        ELSE LET range == lsp_range(doc, doc.nodes[Unwrap(child)])
             IN  IF Collapsed(range, innermost)
                 THEN Descend(doc, Unwrap(child), descendant, innermost)
                 ELSE Descend(doc, Unwrap(child), descendant,
                              SelectionRange(range, Some(innermost)))

\* the body of the loop over params.positions
SelectionRangeAt(doc, position) ==
    LET ts_point == to_ts_point(doc, position)
        covered == doc.nodes[1].start_byte <= ts_point /\ ts_point <= doc.nodes[1].end_byte
        descendant == IF covered THEN DescendantFrom(doc, 1, ts_point) ELSE 1
    IN  Descend(doc, 1, descendant, SelectionRange(lsp_range(doc, doc.nodes[1]), None))

\* pub async fn selection_range: the request is kept in tasks, the result
\* goes to response
selection_range(uri, positions) ==
    /\ pc = "idle"
    /\ tasks' = <<[uri |-> uri, positions |-> positions]>>
    /\ response' =
          Some([ok |-> TRUE, code |-> "", message |-> "",
                items |-> IF ~IsSome(document_map[uri]) THEN None
                          ELSE Some([k \in 1..Len(positions) |->
                                        SelectionRangeAt(Unwrap(document_map[uri]),
                                                         positions[k])])])
    /\ pc' = "done"
    /\ UNCHANGED <<document_map, options, QUERY_SCAN_CACHE, stack, seen>>

SelectionDocuments ==
    {DocumentData(TEST_URI, <<>>, text) : text \in {T_NEST, T_STR}}
        \cup {DocumentFrom(TEST_URI, SourceFrom(patterns)) :
                 patterns \in {<<Captured(Holder("list"), "@a"), Holder("grouping")>>,
                               <<Holder("named_node"), Captured(Holder("named_node"), "@a")>>}}

\* the columns where a node of the document starts or ends; any column does
\* for a document that is not in the store
Columns(uri) ==
    IF ~IsSome(document_map[uri]) THEN {0, 1}
    ELSE LET doc == Unwrap(document_map[uri])
         IN  {doc.nodes[i].start_byte - doc.line_start : i \in 1..Len(doc.nodes)}
                 \cup {doc.nodes[i].end_byte - doc.line_start : i \in 1..Len(doc.nodes)}

SelectionRangeRequest ==
    \E positions \in SeqsUpTo({Position(0, c) : c \in Columns(TEST_URI)}, MaxPositions) :
        selection_range(TEST_URI, positions)

InitSelection ==
    /\ document_map \in {[u \in Urls |-> None]}
                           \cup {StoreOfOne(doc) : doc \in SelectionDocuments}
    /\ options = DefaultOptions
    /\ QUERY_SCAN_CACHE = EmptyMap
    /\ pc = "idle"
    /\ stack = <<>>
    /\ seen = {}
    /\ response = None
    /\ tasks = NoTasks

SpecSelection == InitSelection /\ [][SelectionRangeRequest]_vars

---------------------------------------------------------------------------
(* Properties of the request and of the import walker *)

Frames == {stack[i] : i \in 1..Len(stack)}

\* the pattern-structure diagnostics of a document, computed without cache
PatternStructureDiagnostics(f) ==
    PatternValidator(f.document, f.language_data, FALSE, EmptyMap).diagnostics

ItemsInImportOrder(f) ==
    /\ \A j \in 1..Len(f.items) :
          \E k \in 1..Len(f.document.imported_uris) :
             f.items[j].range = ImportRange(f.document.imported_uris[k])
    /\ \A j \in 1..(Len(f.items) - 1) :
          f.items[j].range.start.character < f.items[j + 1].range.start.character

\* C1: what a call of get_diagnostics_recursively returns is the import
\* diagnostics, in import-list order, then the pattern-structure diagnostics in
\* definition order, then the diagnostics of the scan in match order, with
\* nothing removed, merged or reordered
C1_ReturnedOrder ==
    \A f \in Frames :
        /\ ItemsInImportOrder(f)
        /\ f.pc = "return" =>
              f.diagnostics = f.items \o PatternStructureDiagnostics(f)
                                 \o AstScan(f.document, f.uri, f.language_data, options)

\* a nested call returns import, pattern-structure and scan diagnostics at once
C1_Witness ==
    /\ Len(stack) >= 2
    /\ Top.pc = "return"
    /\ Top.items # <<>>
    /\ PatternStructureDiagnostics(Top) # <<>>
    /\ AstScan(Top.document, Top.uri, Top.language_data, options) # <<>>

ImportsOf(store, u) ==
    IF IsSome(store[u])
    THEN {v \in Urls : \E k \in 1..Len(Unwrap(store[u]).imported_uris) :
                          Unwrap(store[u]).imported_uris[k].uri = Some(v)}
    ELSE {}

\* what is left of an activation: two per import entry not yet gone past (its
\* loop step, and the return of a call it may make), and the steps to its return
FrameWork(f) ==
    2 * (Len(f.document.imported_uris) + 1 - f.index)
      + (CASE f.pc = "imports" -> 5 [] f.pc = "worker" -> 4 [] f.pc = "scan" -> 3
           [] f.pc = "locked" -> 2 [] f.pc = "return" -> 1)

RECURSIVE StackWork(_)
StackWork(s) == IF s = <<>> THEN 0 ELSE FrameWork(Head(s)) + StackWork(Tail(s))

\* the most a module not yet seen can add: a whole activation
ModuleWork == 2 * MaxEdges + 6

\* what is left of the request
Measure ==
    ModuleWork * Cardinality(Urls \ seen) + StackWork(stack)
      + (CASE pc = "idle" -> ModuleWork + 1 [] pc = "running" -> 1 [] pc = "done" -> 0)

\* one pass of the loop body of the walker
WalkerStep == ImportNotFound \/ ImportSeen \/ ImportRecurse

\* C2: a top-level call terminates whatever the import graph, self-imports,
\* mutual imports and longer cycles included: every step of the request
\* brings a natural number down, the walker can always go through its loop
\* body, and no chain of activations outgrows the URIs of the store
C2_Terminates ==
    /\ [][Measure' < Measure]_vars
    /\ [](InWalker => ENABLED WalkerStep)
    /\ [](Len(stack) < MaxDepth)

\* a request over a cycle of three modules has been answered
C2_Witness ==
    /\ pc = "done"
    /\ "u2" \in ImportsOf(document_map, "u1")
    /\ "u3" \in ImportsOf(document_map, "u2")
    /\ "u1" \in ImportsOf(document_map, "u3")

\* C3: the walker recurses only into a URI that is not in the seen-set and
\* inserts it on the way, the seen-set never loses a URI during the call, and
\* an import whose URI is in the seen-set only moves the loop on: no
\* recursion, no diagnostic.  Hence at most one recursion per URI.
C3_SeenOnce ==
    [][ /\ seen \subseteq seen'
        /\ (Len(stack) >= 1 /\ Len(stack') = Len(stack) + 1) =>
              /\ stack'[Len(stack')].uri \notin seen
              /\ stack'[Len(stack')].uri \in seen'
        /\ (InWalker /\ IsSome(CurrentImport.uri) /\ Unwrap(CurrentImport.uri) \in seen) =>
              stack' = SetTop([Top EXCEPT !.index = @ + 1]) ]_vars

\* at depth three the walker has passed over an import of a module that was
\* inserted two activations above
C3_Witness ==
    /\ Len(stack) = 3
    /\ Top.pc = "imports"
    /\ Top.index = 2
    /\ Top.items = <<>>
    /\ Top.document.imported_uris[1].uri = Some(stack[2].uri)
    /\ stack[2].uri # Top.uri

\* the entries a frame's walker has gone past
PassedImports(f) ==
    IF f.pc = "imports" THEN 1..(f.index - 1) ELSE 1..Len(f.document.imported_uris)

\* C4 (as claimed): every entry whose URI is unresolved or whose document is
\* absent from the store gets a WARNING 'Query module not found' at its range
C4_NotFoundForEachAbsent ==
    \A f \in Frames : \A k \in PassedImports(f) :
        LET import == f.document.imported_uris[k]
        IN  (~IsSome(import.uri) \/ ~IsSome(document_map[Unwrap(import.uri)])) =>
               \E j \in 1..Len(f.items) :
                  /\ f.items[j].range = Range(Position(0, import.start), Position(0, import.end))
                  /\ f.items[j].message = "Query module not found"
                  /\ f.items[j].severity = Some(WARNING)

IsFold == pc = "running" /\ Len(stack) >= 2 /\ Top.pc = "return" /\ Len(stack') = Len(stack) - 1

\* C5: when a recursive call returns, the importer gets no diagnostic for an
\* empty result and exactly one 'Issues in module' at the import's range for a
\* non-empty one, whose related information has one entry per inner
\* diagnostic, in order, with the module's URI and the inner range and message
C5_IssuesInModule ==
    [][ IsFold =>
          LET inner == Top.diagnostics
              caller == stack[Len(stack) - 1]
              import == caller.document.imported_uris[caller.index]
              after == stack'[Len(stack')].items
          IN  /\ Top.uri = Unwrap(import.uri)
              /\ inner = <<>> => after = caller.items
              /\ inner # <<>> =>
                    /\ Len(after) = Len(caller.items) + 1
                    /\ SubSeq(after, 1, Len(caller.items)) = caller.items
                    /\ after[Len(after)].message = "Issues in module"
                    /\ after[Len(after)].range =
                          Range(Position(0, import.start), Position(0, import.end))
                    /\ Len(after[Len(after)].related_information) = Len(inner)
                    /\ \A k \in 1..Len(inner) :
                          after[Len(after)].related_information[k] =
                             [message |-> inner[k].message,
                              location |-> [uri |-> Top.uri, range |-> inner[k].range]] ]_vars

\* the first import gave nothing and left no diagnostic, the second one is
\* reported with two related entries
C5_Witness ==
    /\ Len(stack) = 1
    /\ Top.pc = "imports"
    /\ Top.index = 3
    /\ IsSome(Top.document.imported_uris[1].uri)
    /\ Unwrap(Top.document.imported_uris[1].uri) # Top.uri
    /\ IsSome(document_map[Unwrap(Top.document.imported_uris[1].uri)])
    /\ Len(Top.items) = 1
    /\ Top.items[1].message = "Issues in module"
    /\ Top.items[1].range = ImportRange(Top.document.imported_uris[2])
    /\ Len(Top.items[1].related_information) = 2

Severities(diags) ==
    {Unwrap(diags[k].severity) : k \in {k \in 1..Len(diags) : IsSome(diags[k].severity)}}

MostSevere(diags) ==
    IF ERROR \in Severities(diags) THEN ERROR
    ELSE IF WARNING \in Severities(diags) THEN WARNING
    ELSE HINT

\* C6: the severity of 'Issues in module' is the most severe one among the
\* diagnostics the module's call returned (ERROR over WARNING over HINT),
\* nested 'Issues in module' and 'Query module not found' included
C6_MostSevere ==
    [][ (IsFold /\ Top.diagnostics # <<>>) =>
          LET after == stack'[Len(stack')].items
          IN  after[Len(after)].severity = Some(MostSevere(Top.diagnostics)) ]_vars

\* an ERROR two modules down has surfaced: the importer's diagnostic is an
\* ERROR only through the nested 'Issues in module' of its module
C6_Witness ==
    /\ stack # <<>>
    /\ \E j \in 1..Len(Top.items) :
          /\ Top.items[j].message = "Issues in module"
          /\ Top.items[j].severity = Some(ERROR)
          /\ \E k \in 1..Len(Top.items[j].related_information) :
                Top.items[j].related_information[k].message = "Issues in module"
          /\ \A k \in 1..Len(Top.items[j].related_information) :
                Top.items[j].related_information[k].message
                   \in {"Issues in module", "This pattern has no captures, and will not be processed"}

\* C7: every activation below the top-level one works with the language data
\* of the top-level document, at every depth
C7_ImporterLanguageData ==
    \A i \in 1..Len(stack) :
        /\ stack[i].language_data = stack[1].language_data
        /\ stack[1].language_data =
              MapGet(language_map, Unwrap(stack[1].document.language_name))

OwnLanguageData(doc) == MapGet(language_map, Unwrap(doc.language_name))

\* at depth three a module whose own grammar has other language data is
\* scanned, and the node its grammar knows is reported
C7_Witness ==
    /\ Len(stack) = 3
    /\ Top.pc = "return"
    /\ OwnLanguageData(Top.document) # Top.language_data
    /\ IsSome(OwnLanguageData(Top.document))
    /\ \E k \in 1..Len(Top.diagnostics) :
          Top.diagnostics[k].message = "Invalid node type: \"squid\""

---------------------------------------------------------------------------
(* Properties of the pattern scan and of its cache *)

Done(t) == tasks[t].pc = "done"

\* C8: the scan gives Some(k) exactly when the compilation fails with an
\* error of kind Structure at offset k, and None for a successful compilation
\* and for every other kind of error
C8_StructureOnly ==
    \A t \in DOMAIN tasks :
        Done(t) =>
           LET r == QueryNew(tasks[t].language, tasks[t].pattern_text)
           IN  /\ r.kind = "Structure" => tasks[t].result = Some(r.offset)
               /\ r.kind # "Structure" => tasks[t].result = None

\* a structure error away from offset 0 has been scanned
C8_Witness ==
    \E t \in DOMAIN tasks :
        /\ Done(t)
        /\ tasks[t].result = Some(12)
        /\ IsSome(tasks[t].byte_offset)

RegisteredGrammar(name) == Unwrap(language_map[name].language)

\* C9: every entry of the cache holds what a fresh compilation of its pattern
\* text against the grammar registered under its grammar name gives
C9_CacheMatchesFresh ==
    \A key \in DOMAIN QUERY_SCAN_CACHE :
        /\ key[1] \in DOMAIN language_map
        /\ QUERY_SCAN_CACHE[key] = get_pattern_diagnostic(key[2], RegisteredGrammar(key[1]))

\* the cache holds a Some and a None for one pattern under two grammars, after
\* cached and uncached validations
C9_Witness ==
    /\ MapGet(QUERY_SCAN_CACHE, <<"js", T_NEST>>) = Some(Some(12))
    /\ MapGet(QUERY_SCAN_CACHE, <<"css", T_NEST>>) = Some(None)
    /\ \E t \in DOMAIN tasks : Done(t) /\ ~tasks[t].cache

SameKey(t, u) ==
    /\ tasks[t].language_name = tasks[u].language_name
    /\ tasks[t].pattern_text = tasks[u].pattern_text

\* C10: validations of one key that race through lookup, compile and insert
\* return the same value, the cache holds that value for the key afterwards,
\* and a validation that finds the entry returns it too
C10_RacingInserts ==
    \A t \in DOMAIN tasks :
        (Done(t) /\ tasks[t].cache) =>
           /\ MapGet(QUERY_SCAN_CACHE, TaskKey(t)) = Some(tasks[t].result)
           /\ \A u \in DOMAIN tasks :
                 (Done(u) /\ tasks[u].cache /\ SameKey(t, u)) =>
                    tasks[u].result = tasks[t].result

\* two validations of one key have both missed and inserted, a third one has
\* found the entry
C10_Witness ==
    \E t, u, v \in DOMAIN tasks :
        /\ t # u /\ t # v /\ u # v
        /\ SameKey(t, u) /\ SameKey(t, v)
        /\ Done(t) /\ Done(u) /\ Done(v)
        /\ tasks[t].cache /\ tasks[u].cache /\ tasks[v].cache
        /\ IsSome(tasks[t].byte_offset) /\ IsSome(tasks[u].byte_offset)
        /\ ~IsSome(tasks[v].byte_offset)
        /\ tasks[v].result = Some(12)

---------------------------------------------------------------------------
(* Properties of a call next to the other tasks of the server *)

\* the step in which the blocking worker of the running activation returns
IsValidation ==
    /\ pc = "running" /\ stack # <<>> /\ Top.pc = "worker"
    /\ Len(stack') = Len(stack) /\ stack'[Len(stack')].pc = "scan"

\* a cache that holds v for every definition of the activation's document
FilledCache(f, v) ==
    IF IsSome(f.language_data)
    THEN [key \in {pattern_key(Unwrap(f.language_data).name, f.document.nodes[d].text) :
                      d \in Children(f.document, 1)} |-> v]
    ELSE EmptyMap

\* caches a validation may meet, right and wrong entries alike
AnyCaches(f) == {EmptyMap, QUERY_SCAN_CACHE, FilledCache(f, None), FilledCache(f, Some(0))}

\* C11: a pattern validation that runs with cache = false leaves the pattern
\* scan cache as it was, and what it appends is the same whatever the cache
\* holds, entries that no compilation would give included
C11_UncachedLeavesCache ==
    [][ (IsValidation /\ ~Top.cache) =>
          /\ QUERY_SCAN_CACHE' = QUERY_SCAN_CACHE
          /\ \A c \in AnyCaches(Top) :
                stack'[Len(stack')].diagnostics =
                   Top.diagnostics
                      \o PatternValidator(Top.document, Top.language_data, FALSE, c).diagnostics
      ]_vars

\* an uncached validation has reported a pattern whose scan the cache already
\* held (a cached validation of the same document ran below it)
C11_Witness ==
    /\ Len(stack) = 1
    /\ Top.pc = "scan"
    /\ ~Top.cache
    /\ \E k \in 1..Len(Top.diagnostics) :
          Top.diagnostics[k].message = "Invalid pattern structure"
    /\ MapGet(QUERY_SCAN_CACHE, pattern_key("js", Top.document.text)) = Some(Some(12))

\* where an activation is suspended: awaiting the recursive walker, the
\* blocking worker, or the read lock of the options
SuspensionPoints == {"imports", "worker", "scan"}

GuardsHeld == {i \in 1..Len(stack) : GuardHeld(stack[i])}

\* C12: an activation holds no guard on the shared options at any suspension
\* point nor after its return; only the running activation of a recursion
\* chain can hold one, so at most one is held at any time, and while the
\* call is suspended a writer of the options can take its lock
C12_NoGuardAcrossAwait ==
    /\ \A i \in 1..Len(stack) :
          stack[i].pc \in SuspensionPoints \cup {"return"} => ~GuardHeld(stack[i])
    /\ GuardsHeld \subseteq {Len(stack)}
    /\ Cardinality(GuardsHeld) <= 1
    /\ (pc = "running" /\ stack # <<>> /\ Top.pc \in SuspensionPoints) => ENABLED OptionsWrite

\* a nested activation holds the guard while its importer is suspended, after
\* the options were written during the call
C12_Witness ==
    /\ Len(stack) = 2
    /\ GuardHeld(Top)
    /\ stack[1].pc = "imports"
    /\ options = ChangedOptions

IsScan ==
    /\ pc = "running" /\ stack # <<>> /\ Top.pc = "locked"
    /\ Len(stack') = Len(stack) /\ stack'[Len(stack')].pc = "return"

\* C13: the DocumentData of an activation is the value the store held when
\* the document was fetched, it stays that value whatever is written to the
\* store during the call, and both the pattern-structure pass and the scan of
\* the tree work on that one value
C13_OneSnapshot ==
    [][ /\ \A i \in 1..Len(stack) :
              i <= Len(stack') => stack'[i].document = stack[i].document
        /\ Len(stack') > Len(stack) =>
              Some(stack'[Len(stack')].document) = document_map[stack'[Len(stack')].uri]
        /\ IsValidation =>
              stack'[Len(stack')].diagnostics =
                  Top.diagnostics \o
                  PatternValidator(Top.document, Top.language_data, Top.cache,
                                   QUERY_SCAN_CACHE).diagnostics
        /\ IsScan =>
              stack'[Len(stack')].diagnostics =
                  Top.diagnostics \o
                  AstScan(Top.document, Top.uri, Top.language_data, options)
      ]_vars

\* a scan has run on a document that the store no longer holds, and the
\* scan of the version in the store gives other diagnostics
C13_Witness ==
    /\ pc = "running" /\ stack # <<>> /\ Top.pc = "return"
    /\ IsSome(document_map[Top.uri])
    /\ document_map[Top.uri] # Some(Top.document)
    /\ Top.diagnostics # <<>>
    /\ AstScan(Unwrap(document_map[Top.uri]), Top.uri, Top.language_data, options)
          # AstScan(Top.document, Top.uri, Top.language_data, options)

---------------------------------------------------------------------------
(* Properties of the failures of a request *)

Contains(text, part) ==
    \E i \in 1..Len(text) :
        i + Len(part) - 1 <= Len(text) /\ SubSeq(text, i, i + Len(part) - 1) = part

\* C14: a request for a URI that the store does not hold fails with an
\* InternalError whose message contains the URI, in one step that starts no
\* import walk and no pattern validation, leaves the scan cache as it is and
\* takes no guard on the options
C14_AbsentDocumentFails ==
    /\ [][ (pc = "idle" /\ ~IsSome(document_map[TEST_URI])) =>
              /\ pc' = "done"
              /\ IsSome(response')
              /\ ~Unwrap(response').ok
              /\ Unwrap(response').code = "InternalError"
              /\ Contains(Unwrap(response').message, TEST_URI)
              /\ Unwrap(response').items = <<>>
              /\ stack' = <<>> /\ seen' = {}
              /\ QUERY_SCAN_CACHE' = QUERY_SCAN_CACHE
        ]_vars
    /\ []( ~IsSome(document_map[TEST_URI]) =>
              /\ stack = <<>> /\ seen = {}
              /\ QUERY_SCAN_CACHE = EmptyMap
              /\ GuardsHeld = {}
              /\ pc \in {"idle", "done"} )

\* the request for the absent document has been answered
C14_Witness ==
    /\ pc = "done"
    /\ ~IsSome(document_map[TEST_URI])
    /\ IsSome(response) /\ Unwrap(response).code = "InternalError"

---------------------------------------------------------------------------
(* Properties of the scan of one document *)

StartsWith(text, part) ==
    Len(part) <= Len(text) /\ SubSeq(text, 1, Len(part)) = part

\* the diagnostics of the checks that need the grammar's tables
NeedsLanguageData(d) ==
    \/ d.message = "Invalid pattern structure"
    \/ StartsWith(d.message, "Invalid node type: ")
    \/ StartsWith(d.message, "Invalid field name: ")
    \/ Contains(d.message, " is not a subtype of ")
    \/ Contains(d.message, " is not a supertype")

Without(diagnostics, Dropped(_)) ==
    LET Kept(d) == ~Dropped(d) IN SelectSeq(diagnostics, Kept)

IsPatternStructure(d) == d.message = "Invalid pattern structure"

\* what the two passes give for the document of an activation with the
\* language data ld
DiagnosticsWith(f, ld) ==
    PatternValidator(f.document, Some(ld), FALSE, EmptyMap).diagnostics
        \o AstScan(f.document, f.uri, Some(ld), options)

Returned == pc = "running" /\ Len(stack) = 1 /\ Top.pc = "return"

\* C15: without language data the call succeeds and returns the diagnostics
\* it would return with language data, less those of the pattern-structure,
\* node-type, supertype and field checks, in the same order; with language
\* data that has no compiled grammar it returns them less the
\* pattern-structure diagnostics only
C15_SkipsWhatNeedsLanguageData ==
    /\ (pc = "done" /\ IsSome(document_map[TEST_URI])) => Unwrap(response).ok
    /\ (Returned /\ ~IsSome(Top.language_data)) =>
          /\ \A k \in 1..Len(Top.diagnostics) : ~NeedsLanguageData(Top.diagnostics[k])
          /\ \A ld \in {LD_TS, LD_JS, LD_CSS} :
                Top.diagnostics = Without(DiagnosticsWith(Top, ld), NeedsLanguageData)
    /\ (Returned /\ IsSome(Top.language_data)
                 /\ ~IsSome(Unwrap(Top.language_data).language)) =>
          \A language \in {"ts", "js", "css"} :
              Top.diagnostics =
                  Without(DiagnosticsWith(Top, [Unwrap(Top.language_data)
                                                   EXCEPT !.language = Some(language)]),
                          IsPatternStructure)

\* a call without language data has returned the language-independent
\* diagnostics of a document for which the grammar's tables give more
C15_Witness ==
    /\ Returned
    /\ ~IsSome(Top.language_data)
    /\ Top.diagnostics # <<>>
    /\ Len(DiagnosticsWith(Top, LD_TS)) > Len(Top.diagnostics)

---------------------------------------------------------------------------
(* Properties of the capture arms *)

Reported(d) == \E k \in 1..Len(Top.diagnostics) : Top.diagnostics[k] = d

IsReference(doc, i) ==
    doc.nodes[i].kind = "capture" /\ doc.nodes[doc.nodes[i].parent].kind = "parameters"

IsDefinition(doc, i) ==
    /\ doc.nodes[i].kind = "capture"
    /\ doc.nodes[doc.nodes[i].parent].kind
          \in {"named_node", "list", "anonymous_node", "grouping", "missing_node"}

\* both nodes are under the same child of the root
SamePattern(doc, i, j) ==
    \E top \in 1..Len(doc.nodes) :
        doc.nodes[top].parent = 1 /\ IsWithin(doc, i, top) /\ IsWithin(doc, j, top)

Undeclared(doc, i) ==
    Diagnostic(lsp_range(doc, doc.nodes[i]), ERROR_SEVERITY,
               "Undeclared capture: \"" \o doc.nodes[i].text \o "\"")

\* C16: the reference of a capture in the parameters of a predicate is
\* reported as undeclared exactly when no capture in definition position
\* under the same child of the root has its text; nothing else is reported
\* as undeclared
C16_UndeclaredCapture ==
    Returned =>
        LET doc == Top.document
        IN  /\ \A i \in 1..Len(doc.nodes) :
                  IsReference(doc, i) =>
                      (Reported(Undeclared(doc, i)) <=>
                          ~\E j \in 1..Len(doc.nodes) :
                               /\ IsDefinition(doc, j)
                               /\ SamePattern(doc, i, j)
                               /\ doc.nodes[j].text = doc.nodes[i].text)
            /\ \A k \in 1..Len(Top.diagnostics) :
                  StartsWith(Top.diagnostics[k].message, "Undeclared capture") =>
                      \E i \in 1..Len(doc.nodes) :
                          IsReference(doc, i) /\ Top.diagnostics[k] = Undeclared(doc, i)

\* a reference is reported although another top-level pattern defines a
\* capture with its text
C16_Witness ==
    /\ Returned
    /\ \E i, j \in 1..Len(Top.document.nodes) :
          /\ IsReference(Top.document, i)
          /\ IsDefinition(Top.document, j)
          /\ Top.document.nodes[j].text = Top.document.nodes[i].text
          /\ ~SamePattern(Top.document, i, j)
          /\ Reported(Undeclared(Top.document, i))

IsUnderscore(doc, i) == SubSeq(doc.nodes[i].text, 1, 2) = "@_"

Unused(doc, i) ==
    [Diagnostic(lsp_range(doc, doc.nodes[i]), WARNING_SEVERITY,
                "Unused _-prefixed capture (fix available)")
     EXCEPT !.tags = Some(<<"UNNECESSARY">>), !.data = Some("Remove")]

\* C17: the definition of a capture whose name starts with an underscore is
\* reported as unused exactly when warn_unused_underscore_captures is set and
\* no reference under the same child of the root has its text; such a
\* capture is never reported as unsupported
C17_UnusedUnderscoreCapture ==
    Returned =>
        LET doc == Top.document
        IN  /\ \A i \in 1..Len(doc.nodes) :
                  (IsDefinition(doc, i) /\ IsUnderscore(doc, i)) =>
                      (Reported(Unused(doc, i)) <=>
                          /\ options.diagnostic_options.warn_unused_underscore_captures
                          /\ ~\E j \in 1..Len(doc.nodes) :
                                 /\ IsReference(doc, j)
                                 /\ SamePattern(doc, i, j)
                                 /\ doc.nodes[j].text = doc.nodes[i].text)
            /\ \A k \in 1..Len(Top.diagnostics) :
                  /\ StartsWith(Top.diagnostics[k].message, "Unused") =>
                        /\ options.diagnostic_options.warn_unused_underscore_captures
                        /\ \E i \in 1..Len(doc.nodes) :
                              /\ IsDefinition(doc, i) /\ IsUnderscore(doc, i)
                              /\ Top.diagnostics[k] = Unused(doc, i)
                  /\ ~StartsWith(Top.diagnostics[k].message, "Unsupported capture name \"@_")

\* an underscore capture is reported as unused while another top-level
\* pattern refers to a capture with its text
C17_Witness ==
    /\ Returned
    /\ \E i, j \in 1..Len(Top.document.nodes) :
          /\ IsDefinition(Top.document, i) /\ IsUnderscore(Top.document, i)
          /\ IsReference(Top.document, j)
          /\ Top.document.nodes[j].text = Top.document.nodes[i].text
          /\ Reported(Unused(Top.document, i))

Unsupported(doc, i) ==
    [Diagnostic(lsp_range(doc, doc.nodes[i]), WARNING_SEVERITY,
                "Unsupported capture name \"" \o doc.nodes[i].text \o "\" (fix available)")
     EXCEPT !.data = Some("PrefixUnderscore")]

\* C18: the definition of a capture whose name does not start with an
\* underscore is reported as unsupported exactly when valid_captures has an
\* entry for the basename of the document's URI (test, of
\* file:///tmp/queries/js/test.scm) and the name is not a key of the entry,
\* whatever the capture is attached to
C18_UnsupportedCaptureName ==
    Returned =>
        LET doc == Top.document
            entry == MapGet(options.valid_captures, "test")
        IN  /\ \A i \in 1..Len(doc.nodes) :
                  (IsDefinition(doc, i) /\ ~IsUnderscore(doc, i)) =>
                      (Reported(Unsupported(doc, i)) <=>
                          /\ IsSome(entry)
                          /\ SubSeq(doc.nodes[i].text, 2, Len(doc.nodes[i].text))
                                \notin Unwrap(entry))
            /\ \A k \in 1..Len(Top.diagnostics) :
                  StartsWith(Top.diagnostics[k].message, "Unsupported capture name") =>
                      /\ IsSome(entry)
                      /\ \E i \in 1..Len(doc.nodes) :
                            /\ IsDefinition(doc, i)
                            /\ Top.diagnostics[k] = Unsupported(doc, i)

\* a capture attached to a MISSING node is reported as unsupported
C18_Witness ==
    /\ Returned
    /\ \E i \in 1..Len(Top.document.nodes) :
          /\ IsDefinition(Top.document, i)
          /\ Top.document.nodes[Top.document.nodes[i].parent].kind = "missing_node"
          /\ Reported(Unsupported(Top.document, i))

---------------------------------------------------------------------------
(* Properties of the predicate validator *)

\* the call of the document, its parameters in order, those before the
\* first MISSING one, and the specs the options give for it
TheCall(doc) == CHOOSE c \in 1..Len(doc.nodes) : doc.nodes[c].kind = "predicate"

ParametersOf(doc) ==
    Ascending({i \in 2..Len(doc.nodes) :
                  doc.nodes[doc.nodes[i].parent].kind = "parameters"})

PassedOf(doc) ==
    LET all == ParametersOf(doc)
        stops == {k \in 1..Len(all) : doc.nodes[all[k]].is_missing}
    IN  IF stops = {} THEN all
        ELSE SubSeq(all, 1, (CHOOSE k \in stops : \A l \in stops : k <= l) - 1)

SpecsOf(doc) ==
    LET name == doc.nodes[Ascending(Children(doc, TheCall(doc)))[1]].text
        type == doc.nodes[Ascending(Children(doc, TheCall(doc)))[2]].text
    IN  MapGet(IF type = "?" THEN options.valid_predicates ELSE options.valid_directives,
               name)

MissingParameter(doc, type) ==
    Diagnostic(lsp_range(doc, doc.nodes[TheCall(doc)]), WARNING_SEVERITY,
               "Missing parameter of type \"" \o type \o "\"")

\* C19: a call with a non-empty spec list gets the warning for a missing
\* parameter, over the whole call, exactly when fewer parameters were passed
\* than there are specs and the first spec without a parameter is required;
\* it is the only warning of that kind
C19_MissingParameter ==
    (Returned /\ IsSome(SpecsOf(Top.document))) =>
        LET doc == Top.document
            specs == Unwrap(SpecsOf(doc))
            n == Len(PassedOf(doc))
            missing == {k \in 1..Len(Top.diagnostics) :
                           StartsWith(Top.diagnostics[k].message, "Missing parameter")}
        IN  IF n < Len(specs) /\ specs[n + 1].arity = "required"
            THEN /\ Cardinality(missing) = 1
                 /\ Reported(MissingParameter(doc, specs[n + 1].type_))
            ELSE missing = {}

\* a parameter was passed, and the spec after it is required
C19_Witness ==
    /\ Returned /\ IsSome(SpecsOf(Top.document))
    /\ Len(PassedOf(Top.document)) = 1
    /\ Len(Unwrap(SpecsOf(Top.document))) = 2
    /\ Reported(MissingParameter(Top.document, Unwrap(SpecsOf(Top.document))[2].type_))

Got(doc, i) == IF doc.nodes[i].kind = "capture" THEN "capture" ELSE "string"

MismatchesAt(doc, i) ==
    {k \in 1..Len(Top.diagnostics) :
        /\ StartsWith(Top.diagnostics[k].message, "Parameter type mismatch")
        /\ Top.diagnostics[k].range = lsp_range(doc, doc.nodes[i])}

TypeMismatch(doc, i, type) ==
    Diagnostic(lsp_range(doc, doc.nodes[i]), WARNING_SEVERITY,
               "Parameter type mismatch: expected \"" \o type \o "\", got \""
                   \o Got(doc, i) \o "\"")

\* C20: the i-th parameter passed is held against spec i, or against the
\* last spec when there are fewer than i specs and the last one is variadic;
\* it gets the mismatch warning exactly when it is a capture held against a
\* string spec or not a capture held against a capture spec, and no
\* parameter held against nothing, or not passed, gets one
C20_TypeMismatch ==
    (Returned /\ IsSome(SpecsOf(Top.document)) /\ Unwrap(SpecsOf(Top.document)) # <<>>) =>
        LET doc == Top.document
            specs == Unwrap(SpecsOf(doc))
            all == ParametersOf(doc)
            n == Len(PassedOf(doc))
            last == specs[Len(specs)]
        IN  \A i \in 1..Len(all) :
                LET held == IF i > n THEN None
                            ELSE IF i <= Len(specs) THEN Some(specs[i])
                            ELSE IF last.arity = "variadic" THEN Some(last)
                            ELSE None
                    type == IF IsSome(held) THEN Unwrap(held).type_ ELSE ""
                IN  IF \/ Got(doc, all[i]) = "capture" /\ type = "string"
                       \/ Got(doc, all[i]) = "string" /\ type = "capture"
                    THEN /\ Cardinality(MismatchesAt(doc, all[i])) = 1
                         /\ Reported(TypeMismatch(doc, all[i], type))
                    ELSE MismatchesAt(doc, all[i]) = {}

\* a parameter beyond the specs is held against the variadic last spec
C20_Witness ==
    /\ Returned /\ IsSome(SpecsOf(Top.document))
    /\ LET doc == Top.document
           specs == Unwrap(SpecsOf(doc))
           all == PassedOf(doc)
       IN  /\ Len(specs) = 1 /\ Len(all) = 2
           /\ specs[1].arity = "variadic"
           /\ MismatchesAt(doc, all[1]) = {}
           /\ Reported(TypeMismatch(doc, all[2], specs[1].type_))

UnexpectedAt(doc, i) ==
    {k \in 1..Len(Top.diagnostics) :
        /\ StartsWith(Top.diagnostics[k].message, "Unexpected parameter")
        /\ Top.diagnostics[k].range = lsp_range(doc, doc.nodes[i])}

UnexpectedParameter(doc, i) ==
    Diagnostic(lsp_range(doc, doc.nodes[i]), WARNING_SEVERITY,
               "Unexpected parameter: \"" \o doc.nodes[i].text \o "\"")

\* C21: a parameter passed after every spec was consumed gets the warning
\* for an unexpected parameter, at that parameter and once, exactly when the
\* last spec is not variadic, and then no type mismatch; a parameter that
\* has a spec of its own gets no such warning
C21_UnexpectedParameter ==
    (Returned /\ IsSome(SpecsOf(Top.document)) /\ Unwrap(SpecsOf(Top.document)) # <<>>) =>
        LET doc == Top.document
            specs == Unwrap(SpecsOf(doc))
            passed == PassedOf(doc)
            last == specs[Len(specs)]
        IN  \A i \in 1..Len(passed) :
                IF i > Len(specs) /\ last.arity # "variadic"
                THEN /\ Cardinality(UnexpectedAt(doc, passed[i])) = 1
                     /\ Reported(UnexpectedParameter(doc, passed[i]))
                     /\ MismatchesAt(doc, passed[i]) = {}
                ELSE UnexpectedAt(doc, passed[i]) = {}

\* two parameters after the only spec, which is optional: a warning at each
C21_Witness ==
    /\ Returned /\ IsSome(SpecsOf(Top.document))
    /\ LET doc == Top.document
           specs == Unwrap(SpecsOf(doc))
           passed == PassedOf(doc)
       IN  /\ Len(specs) = 1 /\ Len(passed) = 3
           /\ specs[1].arity = "optional"
           /\ UnexpectedAt(doc, passed[1]) = {}
           /\ Reported(UnexpectedParameter(doc, passed[2]))
           /\ Reported(UnexpectedParameter(doc, passed[3]))

ParametersNode(doc) == CHOOSE i \in 1..Len(doc.nodes) : doc.nodes[i].kind = "parameters"

EmptySpecification(doc) ==
    Diagnostic(lsp_range(doc, doc.nodes[ParametersNode(doc)]), WARNING_SEVERITY,
               "Parameter specification must not be empty")

ParameterChecks ==
    {k \in 1..Len(Top.diagnostics) :
        \/ StartsWith(Top.diagnostics[k].message, "Parameter type mismatch")
        \/ StartsWith(Top.diagnostics[k].message, "Unexpected parameter")
        \/ StartsWith(Top.diagnostics[k].message, "Missing parameter")}

\* C22: a call whose name has an empty spec list in the schema gets one
\* warning 'Parameter specification must not be empty' at its parameters
\* node, and none of the three parameter diagnostics, whatever it passes
C22_EmptySpecification ==
    (Returned /\ SpecsOf(Top.document) = Some(<<>>)) =>
        /\ Cardinality({k \in 1..Len(Top.diagnostics) :
                           Top.diagnostics[k] = EmptySpecification(Top.document)}) = 1
        /\ Cardinality({k \in 1..Len(Top.diagnostics) :
                           StartsWith(Top.diagnostics[k].message,
                                      "Parameter specification")}) = 1
        /\ ParameterChecks = {}

\* an empty spec list and a call that passes as many parameters as can be
C22_Witness ==
    /\ Returned /\ SpecsOf(Top.document) = Some(<<>>)
    /\ Len(PassedOf(Top.document)) = MaxParams
    /\ Reported(EmptySpecification(Top.document))

---------------------------------------------------------------------------
(* Properties of the predicate and directive arm *)

\* the name of the call, its type, and the schema the type selects
NameOf(doc) == Ascending(Children(doc, TheCall(doc)))[1]

TypeOf(doc) == doc.nodes[Ascending(Children(doc, TheCall(doc)))[2]].text

SchemaOf(doc) ==
    IF TypeOf(doc) = "?" THEN options.valid_predicates ELSE options.valid_directives

Unrecognized(doc) ==
    Diagnostic(lsp_range(doc, doc.nodes[NameOf(doc)]), WARNING_SEVERITY,
               "Unrecognized " \o (IF TypeOf(doc) = "?" THEN "predicate" ELSE "directive")
                   \o " \"" \o doc.nodes[NameOf(doc)].text \o "\"")

UnrecognizedNames ==
    {k \in 1..Len(Top.diagnostics) : StartsWith(Top.diagnostics[k].message, "Unrecognized")}

CallChecks ==
    ParameterChecks
        \cup {k \in 1..Len(Top.diagnostics) :
                 StartsWith(Top.diagnostics[k].message, "Parameter specification")}

\* C23: with an empty schema for its type a call gets no diagnostic from
\* the arm; with a schema that has entries but none for its name it gets one
\* warning 'Unrecognized predicate' or 'Unrecognized directive' at the name
\* and no parameter check; with an entry for its name it gets no such
\* warning. Only the schema of the call's own type counts
C23_UnrecognizedName ==
    Returned =>
        LET doc == Top.document
            schema == SchemaOf(doc)
            name == doc.nodes[NameOf(doc)].text
        IN  IF DOMAIN schema = {}
            THEN UnrecognizedNames = {} /\ CallChecks = {}
            ELSE IF name \notin DOMAIN schema
            THEN /\ Cardinality(UnrecognizedNames) = 1
                 /\ Reported(Unrecognized(doc))
                 /\ CallChecks = {}
            ELSE UnrecognizedNames = {}

\* a directive whose name only the predicate schema knows, passing a
\* parameter that the entry of that name would reject
C23_Witness ==
    /\ Returned
    /\ TypeOf(Top.document) = "!"
    /\ DOMAIN options.valid_directives = {"match"}
    /\ "eq" \in DOMAIN options.valid_predicates
    /\ Len(PassedOf(Top.document)) = 1
    /\ Got(Top.document, PassedOf(Top.document)[1]) = "string"
    /\ Reported(Unrecognized(Top.document))

---------------------------------------------------------------------------
(* Properties of the node arm *)

\* the labels of named nodes and the contents of anonymous ones
NamedSites(doc) ==
    {i \in 2..Len(doc.nodes) :
        doc.nodes[i].kind = "identifier" /\ doc.nodes[doc.nodes[i].parent].kind = "named_node"}

AnonymousSites(doc) ==
    {i \in 2..Len(doc.nodes) :
        /\ doc.nodes[i].kind = "string_content"
        /\ doc.nodes[doc.nodes[doc.nodes[i].parent].parent].kind = "anonymous_node"}

InvalidAt(doc, i) ==
    {k \in 1..Len(Top.diagnostics) :
        /\ StartsWith(Top.diagnostics[k].message, "Invalid node type")
        /\ Top.diagnostics[k].range = lsp_range(doc, doc.nodes[i])}

InvalidNodeType(doc, i, label) ==
    Diagnostic(lsp_range(doc, doc.nodes[i]), ERROR_SEVERITY,
               "Invalid node type: \"" \o label \o "\"")

\* text is label with one backslash put before a character that needs none
ByOneBackslash(text, label) ==
    \E k \in 0..(Len(label) - 1) :
        /\ text = SubSeq(label, 1, k) \o "\\" \o SubSeq(label, k + 1, Len(label))
        /\ SubSeq(label, k + 1, k + 1) \notin KeptEscapes
        /\ \A j \in 1..Len(label) : SubSeq(label, j, j) # "\\"

\* C24: with language data, a named node is reported as an invalid node
\* type exactly when its label is not a named symbol, and an anonymous one
\* exactly when its literal without the unnecessary escapes is not an
\* anonymous symbol; a literal that is a known symbol but for one unnecessary
\* backslash is not reported
C24_InvalidNodeType ==
    (Returned /\ IsSome(Top.language_data)) =>
        LET doc == Top.document
            symbols == Unwrap(Top.language_data).symbols_set
            Checked(i, label, named) ==
                IF SymbolInfo(label, named) \in symbols
                THEN InvalidAt(doc, i) = {}
                ELSE /\ Cardinality(InvalidAt(doc, i)) = 1
                     /\ Reported(InvalidNodeType(doc, i, label))
        IN  /\ \A i \in NamedSites(doc) : Checked(i, doc.nodes[i].text, TRUE)
            /\ \A i \in AnonymousSites(doc) :
                   Checked(i, remove_unnecessary_escapes(doc.nodes[i].text), FALSE)
            /\ \A i \in AnonymousSites(doc) :
                   (\E sym \in symbols :
                       ~sym.named /\ ByOneBackslash(doc.nodes[i].text, sym.label))
                       => InvalidAt(doc, i) = {}

\* a literal with an unnecessary backslash that is a symbol without it, next
\* to one that is no symbol with or without it
C24_Witness ==
    /\ Returned /\ IsSome(Top.language_data)
    /\ LET doc == Top.document
       IN  \E i, j \in AnonymousSites(doc) :
               /\ doc.nodes[i].text = "f\\unc"
               /\ InvalidAt(doc, i) = {}
               /\ Reported(InvalidNodeType(doc, j, "fanc"))

---------------------------------------------------------------------------
(* Properties of the ranges *)

\* the columns of a line of the document: the inherits line, when there is
\* one, is line 0 and the query source is the last line
LineLength(doc, line) ==
    IF line = doc.line THEN Len(doc.text) ELSE doc.line_start - 1

InDocument(doc, range) ==
    /\ range.start.line = range.end.line
    /\ range.start.line <= doc.line
    /\ 0 <= range.start.character
    /\ range.start.character <= range.end.character
    /\ range.end.character <= LineLength(doc, range.start.line)

OnImport(doc, range) ==
    \E k \in 1..Len(doc.imported_uris) :
        range = Range(Position(0, doc.imported_uris[k].start),
                      Position(0, doc.imported_uris[k].end))

\* the range is that of a string content, one column wider on each side
AroundString(doc, range) ==
    \E i \in 1..Len(doc.nodes) :
        /\ doc.nodes[i].kind = "string_content"
        /\ doc.nodes[i].start_byte - doc.line_start >= 1
        /\ range.start.line = doc.line /\ range.end.line = doc.line
        /\ range.start.character + 1 = doc.nodes[i].start_byte - doc.line_start
        /\ range.end.character = doc.nodes[i].end_byte - doc.line_start + 1

\* the range holds the byte at which the grammar refused a top-level pattern
CoversErrorByte(f, range) ==
    \E def \in Children(f.document, 1) :
        LET r == QueryNew(Unwrap(Unwrap(f.language_data).language), f.document.nodes[def].text)
            column == f.document.nodes[def].start_byte + r.offset - f.document.line_start
        IN  /\ r.kind = "Structure"
            /\ range.start.line = f.document.line
            /\ range.start.character <= column
            /\ column <= range.end.character

RangesOf(f) ==
    \A k \in 1..Len(f.diagnostics) :
        LET d == f.diagnostics[k]
        IN  /\ InDocument(f.document, d.range)
            /\ d.message \in {"Query module not found", "Issues in module"}
                   => OnImport(f.document, d.range)
            /\ \A j \in 1..Len(d.related_information) :
                   LET location == d.related_information[j].location
                   IN  /\ IsSome(document_map[location.uri])
                       /\ InDocument(Unwrap(document_map[location.uri]), location.range)
            /\ StartsWith(d.message, "Unnecessary quotations") => AroundString(f.document, d.range)
            /\ d.message = "Invalid pattern structure" => CoversErrorByte(f, d.range)

\* C25: every diagnostic a call returns for a document has a range with
\* start <= end inside the text of that document; those of the imports are
\* on line 0 at the columns of the import; the range of 'Unnecessary
\* quotations' is the string content widened by one column on each side and
\* starts at column 0 or later; the range of 'Invalid pattern structure'
\* holds the byte pattern_start + k
C25_RangesInDocument ==
    \A n \in 1..Len(stack) : stack[n].pc = "return" => RangesOf(stack[n])

\* a document with an inherits line: its module is reported with a pattern
\* error of its own, and the document has unnecessary quotations
C25_Witness ==
    /\ Returned
    /\ Top.document.line = 1
    /\ \E k, l \in 1..Len(Top.diagnostics) :
          /\ Top.diagnostics[k].message = "Issues in module"
          /\ \E j \in 1..Len(Top.diagnostics[k].related_information) :
                 Top.diagnostics[k].related_information[j].message = "Invalid pattern structure"
          /\ StartsWith(Top.diagnostics[l].message, "Unnecessary quotations")

---------------------------------------------------------------------------
(* Properties of the validator at a MISSING parameter *)

\* the calls with a non-empty spec list whose parameters hold a MISSING node
HasMissing ==
    /\ Returned
    /\ IsSome(SpecsOf(Top.document)) /\ Unwrap(SpecsOf(Top.document)) # <<>>
    /\ Len(PassedOf(Top.document)) < Len(ParametersOf(Top.document))

---------------------------------------------------------------------------
(* Properties of remove_unnecessary_escapes *)

\* read from the left, every backslash that starts an escape is followed by
\* a character that keeps it; the character it takes starts no escape
RECURSIVE WellEscaped(_)
WellEscaped(s) ==
    IF Len(s) = 0 THEN TRUE
    ELSE IF SubSeq(s, 1, 1) = "\\"
    THEN /\ Len(s) >= 2
         /\ SubSeq(s, 2, 2) \in KeptEscapes
         /\ WellEscaped(SubSeq(s, 3, Len(s)))
    ELSE WellEscaped(SubSeq(s, 2, Len(s)))

\* every backslash, wherever it stands, has a keeping character after it
EveryBackslashFollowed(s) ==
    \A k \in 1..Len(s) :
        SubSeq(s, k, k) = "\\" => k < Len(s) /\ SubSeq(s, k + 1, k + 1) \in KeptEscapes

\* C27: f(f(s)) = f(s); in f(s), read from the left, every backslash that
\* starts an escape is followed by one of the recognized characters and no
\* lone backslash is left at the end; f(s) = s when s is already so
C27_Normalizing ==
    IsSome(tasks[1].once) =>
        /\ IsSome(tasks[1].twice) => tasks[1].twice = tasks[1].once
        /\ WellEscaped(Unwrap(tasks[1].once))
        /\ WellEscaped(tasks[1].input) => Unwrap(tasks[1].once) = tasks[1].input

\* an unnecessary escape before a recognized one: the first loses its
\* backslash, the second is kept, and a second pass changes nothing
C27_Witness ==
    /\ tasks[1].input = "\\a\\n"
    /\ tasks[1].once = Some("a\\n")
    /\ tasks[1].twice = Some("a\\n")

\* C27 as stated: every backslash of f(s) is followed by a recognized
\* character
C27_EveryBackslashFollowed ==
    IsSome(tasks[1].once) =>
        /\ IsSome(tasks[1].twice) => tasks[1].twice = tasks[1].once
        /\ EveryBackslashFollowed(Unwrap(tasks[1].once))
        /\ EveryBackslashFollowed(tasks[1].input) => Unwrap(tasks[1].once) = tasks[1].input

---------------------------------------------------------------------------
(* Properties of the selection range request *)

\* the ranges of a chain, outermost first
RECURSIVE Links(_)
Links(link) ==
    IF ~IsSome(link.parent) THEN <<link.range>>
    ELSE Append(Links(Unwrap(link.parent)), link.range)

\* the nodes from the root down to node i
RECURSIVE PathTo(_, _)
PathTo(doc, i) == IF i = 1 THEN <<1>> ELSE Append(PathTo(doc, doc.nodes[i].parent), i)

Encloses(outer, inner) ==
    /\ outer.start.line = inner.start.line /\ outer.end.line = inner.end.line
    /\ outer.start.character <= inner.start.character
    /\ inner.end.character <= outer.end.character

\* the smallest named node over a column of the document
NodeAt(doc, column) == DescendantFrom(doc, 1, doc.line_start + column)

\* links is ranges without the ranges that repeat the one before them
RECURSIVE Distinct(_)
Distinct(ranges) ==
    IF Len(ranges) <= 1 THEN ranges
    ELSE LET front == Distinct(Front(ranges))
         IN  IF ranges[Len(ranges)] = front[Len(front)] THEN front
             ELSE Append(front, ranges[Len(ranges)])

\* C28: the request returns Ok(None) for an absent document, and otherwise
\* one chain per position, in the order of the request; a chain starts with
\* the range of the root and goes down the path to the named node at the
\* position, leaving out each node whose range is that of the link before
\* it: every link differs from its parent and lies inside it
C28_SelectionChains ==
    pc = "done" =>
        /\ IsSome(response) /\ Unwrap(response).ok
        /\ IF ~IsSome(document_map[tasks[1].uri])
           THEN Unwrap(response).items = None
           ELSE LET doc == Unwrap(document_map[tasks[1].uri])
                    positions == tasks[1].positions
                    results == Unwrap(Unwrap(response).items)
                IN  /\ Len(results) = Len(positions)
                    /\ \A k \in 1..Len(positions) :
                           LET links == Links(results[k])
                               path == PathTo(doc, NodeAt(doc, positions[k].character))
                               ranges == [n \in 1..Len(path) |->
                                             lsp_range(doc, doc.nodes[path[n]])]
                           IN  /\ links[1] = lsp_range(doc, doc.nodes[1])
                               /\ links = Distinct(ranges)
                               /\ \A n \in 2..Len(links) :
                                      /\ links[n] # links[n - 1]
                                      /\ Encloses(links[n - 1], links[n])

\* two positions: the first in a node four levels down whose top-level
\* pattern has the range of the root, the second at the root itself
C28_Witness ==
    /\ pc = "done" /\ IsSome(response)
    /\ IsSome(Unwrap(response).items)
    /\ LET results == Unwrap(Unwrap(response).items)
           doc == Unwrap(document_map[tasks[1].uri])
       IN  /\ Len(results) = 2
           /\ Len(PathTo(doc, NodeAt(doc, tasks[1].positions[1].character))) = 5
           /\ Len(Links(results[1])) = 4
           /\ Len(Links(results[2])) = 1

---------------------------------------------------------------------------
(* Properties of the walker on graphs that come back to a module *)

\* some diagnostic of the list has related information in the document uri
RelatedTo(diags, uri) ==
    \E k \in 1..Len(diags) : \E j \in 1..Len(diags[k].related_information) :
        diags[k].related_information[j].location.uri = uri

\* C29 (as claimed): in one call no document is analysed twice, the root
\* included: no activation for an import works on the root's document, in a
\* cycle through the root or when the root imports itself, and no diagnostic
\* of the root has related information that points to the root
C29_EachDocumentOnce ==
    /\ \A m, n \in 1..Len(stack) : m # n => stack[m].uri # stack[n].uri
    /\ stack # <<>> => ~RelatedTo(stack[1].items, stack[1].uri)
    /\ (IsSome(response) /\ Unwrap(response).ok) =>
           ~RelatedTo(Unwrap(response).items, TEST_URI)

\* the URIs in the seen-set when the walker of the root has gone through its
\* first n imports: those imports and all that their documents lead to
SeenAfter(store, root, n) ==
    ReachFrom(store,
              {u \in Urls : \E k \in 1..n : root.imported_uris[k].uri = Some(u)},
              Cardinality(Urls))

ItemsAt(f, k) ==
    {j \in 1..Len(f.items) : f.items[j].range = ImportRange(f.document.imported_uris[k])}

\* the diagnostics that come from an import of d: those of the root at an
\* import of d, and the entries of its modules' reports at their imports of d
DerivedFrom(store, root, d) ==
    {<<j, 0>> : j \in UNION {ItemsAt(root, k) :
                     k \in {k \in 1..Len(root.document.imported_uris) :
                               root.document.imported_uris[k].uri = Some(d)}}}
      \cup {p \in UNION {{<<j, e>> : e \in 1..Len(root.items[j].related_information)} :
                            j \in 1..Len(root.items)} :
               LET entry == root.items[p[1]].related_information[p[2]]
                   module == store[entry.location.uri]
               IN  /\ entry.message \in {"Issues in module", "Query module not found"}
                   /\ IsSome(module)
                   /\ \E k \in 1..Len(Unwrap(module).imported_uris) :
                          /\ Unwrap(module).imported_uris[k].uri = Some(d)
                          /\ entry.location.range =
                                ImportRange(Unwrap(module).imported_uris[k])}

\* C30: an import of a module that an earlier import of the root has led
\* to, or that stands earlier in the root's own list, gets no diagnostic at
\* all; a module imported by several modules is reported under one of them
\* only: the report holds at most one diagnostic or entry that comes from it
C30_FirstImporterOnly ==
    stack # <<>> =>
        LET root == stack[1]
            imports == root.document.imported_uris
        IN  /\ \A k \in PassedImports(root) :
                   (IsSome(imports[k].uri)
                      /\ Unwrap(imports[k].uri) \in SeenAfter(document_map, root.document, k - 1))
                       => ItemsAt(root, k) = {}
            /\ \A d \in Urls : Cardinality(DerivedFrom(document_map, root, d)) <= 1

\* u1 imports u2 and u3, u2 imports u3: the report of u2 has the entry for
\* u3, and the root has nothing at its own import of u3
C30_Witness ==
    /\ Returned
    /\ LET imports == Top.document.imported_uris
       IN  /\ Len(imports) = 2
           /\ imports[1].uri = Some("u2") /\ imports[2].uri = Some("u3")
           /\ ImportsOf(document_map, "u2") = {"u3"}
           /\ IsSome(document_map["u3"])
           /\ Len(Top.items) = 1
           /\ ItemsAt(Top, 2) = {}
           /\ Cardinality(DerivedFrom(document_map, Top, "u3")) = 1

=============================================================================
